---- MODULE Spec2Model ----
(***************************************************************************)
(* A model of the solid-forms control tree: leaf controls (FormControl),   *)
(* object containers (FormGroup) and array containers (FormArray).         *)
(*                                                                         *)
(* Every control is a Solid store.  The stored (written) fields of a       *)
(* control are kept in store[id]; the child collection of a container is   *)
(* kept in controls[id].  Everything the source computes with createMemo   *)
(* or with a getter is an operator over (store, controls), computed the    *)
(* way the source computes it.  The createComputed() reaction that         *)
(* re-validates a control is run inside the action whose write triggers    *)
(* it, because Solid runs it synchronously before the mutator returns.     *)
(*                                                                         *)
(* JavaScript values are encoded as follows.                               *)
(*   - a ValidationErrors object is a function from its keys to values;    *)
(*     the order of the keys of an object is not modelled (isEqual and     *)
(*     every reader of an errors object ignore it);                        *)
(*   - "ValidationErrors | null" is Null or Some(object);                  *)
(*   - a Map is a sequence of <<key, value>> pairs in iteration order;     *)
(*   - a Set is a set;                                                     *)
(*   - a control value is a string for a leaf, a function from keys for a  *)
(*     FormGroup and a sequence for a FormArray.                           *)
(***************************************************************************)
EXTENDS Integers, Sequences, FiniteSets, TLC

VARIABLES
    store,      \* store[id]: the written fields of control id
    controls,   \* controls[id]: the child collection of container id
    nops,       \* number of caller-issued operations so far
    thrown,     \* the error the last operation raised, NoError if none
    returned,   \* what the last operation returned, NoReturn for a void one
    runs        \* runs[id]: the raw values the reaction of control id called
                \* its validator with at the end of the last batch() of a
                \* container operation; empty after any other operation

vars == <<store, controls, nops, thrown, returned, runs>>

----------------------------------------------------------------------------
(* Bounds of the model *)

\* caller-issued operations per behaviour
MaxOps == 2

\* the controls that exist: three leaves, two object containers, one array
Leaves == {"a", "b", "c"}
Groups == {"g", "h"}
Arrays == {"r"}
Containers == Groups \cup Arrays
Ids == Leaves \cup Containers

\* raw values a caller gives to a leaf
Values == {"", "x"}

DEFAULT_SOURCE == "CONTROL_DEFAULT_SOURCE"
\* source ids a caller uses
Sources == {DEFAULT_SOURCE, "S1", "S2"}

\* the JavaScript null as the value of a key of an errors object
NullVal == "null"

\* no error was raised
NoError == ""
\* what a call of a void method, or a call that throws, returns
NoReturn == "void"
NoRuns == [id \in Ids |-> <<>>]

----------------------------------------------------------------------------
(* Objects, nullable objects and Maps *)

EmptyObj == [k \in {} |-> ""]

Null == [isNull |-> TRUE, obj |-> EmptyObj]
Some(o) == [isNull |-> FALSE, obj |-> o]

\* { ...p, ...e }
Spread(p, e) ==
    [k \in (DOMAIN p) \cup (DOMAIN e) |-> IF k \in DOMAIN e THEN e[k] ELSE p[k]]

\* { ...p, ...n } where n may be null (spreading null adds nothing)
SpreadNullable(p, n) == IF n.isNull THEN p ELSE Spread(p, n.obj)

MapKeys(m) == {m[i][1] : i \in DOMAIN m}
MapHas(m, k) == k \in MapKeys(m)
MapGet(m, k) == m[CHOOSE i \in DOMAIN m : m[i][1] = k][2]
MapDelete(m, k) == SelectSeq(m, LAMBDA e : e[1] # k)
\* Map.prototype.set: an existing key keeps its place, a new key goes last
MapSet(m, k, v) ==
    IF MapHas(m, k)
    THEN [i \in DOMAIN m |-> IF m[i][1] = k THEN <<k, v>> ELSE m[i]]
    ELSE Append(m, <<k, v>>)
MapValues(m) == [i \in DOMAIN m |-> m[i][2]]

\* new Map([...a, ...b])
RECURSIVE MapUnion(_, _)
MapUnion(a, b) ==
    IF b = <<>> THEN a
    ELSE MapUnion(MapSet(a, Head(b)[1], Head(b)[2]), Tail(b))

\* Object.fromEntries: a later entry of a key overrides an earlier one
fromEntries(es) ==
    [k \in {es[i][1] : i \in DOMAIN es} |->
        es[CHOOSE i \in DOMAIN es :
              /\ es[i][1] = k
              /\ \A j \in DOMAIN es : es[j][1] = k => j <= i][2]]

\* fast-deep-equal on two Maps: same size, every key of a is a key of b
\* with a deep-equal value; the iteration order plays no part
isEqualMap(a, b) ==
    /\ Len(a) = Len(b)
    /\ \A i \in DOMAIN a : MapHas(b, a[i][1]) /\ MapGet(b, a[i][1]) = a[i][2]

----------------------------------------------------------------------------
(* Validator functions *)

\* The validator functions a caller installs.  "required" is the validator
\* of the README (value.length === 0 ? { isMissing: true } : null); "isX"
\* rejects the value "x" with { x: "1" }; "always" always returns { x: "2" };
\* "never" is the (c) => null of the tests.
ValidatorFns == {"required", "isX", "always", "never"}

kindOf(id) ==
    IF id \in Leaves THEN "leaf" ELSE IF id \in Groups THEN "group" ELSE "array"

\* the errors object or null that the validator function fn returns for the
\* raw value v of a control of the given kind
callValidatorFn(fn, kind, v) ==
    CASE fn = "required" ->
            IF kind = "leaf" THEN (IF v = "" THEN Some([isMissing |-> "true"]) ELSE Null)
            ELSE IF kind = "array" THEN (IF Len(v) = 0 THEN Some([isMissing |-> "true"]) ELSE Null)
            ELSE Null   \* an object has no length: undefined === 0 is false
      [] fn = "isX" ->
            IF kind = "leaf" /\ v = "x" THEN Some([x |-> "1"]) ELSE Null
      [] fn = "always" -> Some([x |-> "2"])
      [] fn = "never" -> Null

\* A ValidatorFn value: either one of ValidatorFns as given by the caller, or
\* the closure composeValidators builds over an array of them.
Fn(name) == [composed |-> FALSE, fns |-> <<name>>]
Composed(names) == [composed |-> TRUE, fns |-> names]

\* the reduce of the closure composeValidators returns
RECURSIVE composedReduce(_, _, _, _)
composedReduce(fns, kind, v, prev) ==
    IF fns = <<>> THEN prev
    ELSE LET errors == callValidatorFn(Head(fns), kind, v)
         IN  composedReduce(Tail(fns), kind, v,
                IF ~errors.isNull
                THEN Some(SpreadNullable(SpreadNullable(EmptyObj, prev), errors))
                ELSE prev)

\* composeValidators(validators): null for null and for the empty array, the
\* validator itself for a single function, a new closure for an array.
\* The input is InNull, InFn(name) or InArr(names).
composeValidators(input) ==
    IF input.t = "null" \/ (input.t = "arr" /\ Len(input.arr) = 0) THEN Null
    ELSE IF input.t = "arr" THEN Some(Composed(input.arr))
    ELSE Some(Fn(input.fn))

\* calling a ValidatorFn value
callValidator(f, kind, v) ==
    IF f.composed THEN composedReduce(f.fns, kind, v, Null)
    ELSE callValidatorFn(f.fns[1], kind, v)

----------------------------------------------------------------------------
(* Arguments of the mutators *)

\* An argument is null, an object, a Map, a function or an array of
\* functions: t tells which, and the field of that kind holds it.
In(t, o, m, f, a) == [t |-> t, obj |-> o, map |-> m, fn |-> f, arr |-> a]
InNull == In("null", EmptyObj, <<>>, "", <<>>)
InObj(o) == In("obj", o, <<>>, "", <<>>)
InMap(m) == In("map", EmptyObj, m, "", <<>>)
InFn(name) == In("fn", EmptyObj, <<>>, name, <<>>)
InArr(names) == In("arr", EmptyObj, <<>>, "", names)

----------------------------------------------------------------------------
(* The store of a control *)

\* base of createAbstractControlBase, with the raw value of createFormControl
\* (a container has no stored raw value: its rawValue field is never read)
NewControl(v) ==
    [ rawValue       |-> v,
      isDisabled     |-> FALSE,
      isTouched      |-> FALSE,
      isDirty        |-> FALSE,
      isReadonly     |-> FALSE,
      isSubmitted    |-> FALSE,
      isRequired     |-> FALSE,
      errorsStore    |-> <<>>,
      pendingStore   |-> {},
      validatorStore |-> <<>>,
      data           |-> EmptyObj ]

----------------------------------------------------------------------------
(* The self getters and memos of createAbstractControlBase *)

\* selfIsPendingMemo
selfIsPending(S, id) == Cardinality(S[id].pendingStore) > 0

\* the reduce of selfErrorsMemo over errorsStore.values()
RECURSIVE spreadAll(_, _)
spreadAll(p, objs) ==
    IF objs = <<>> THEN p ELSE spreadAll(Spread(p, Head(objs)), Tail(objs))

\* selfErrorsMemo
selfErrors(S, id) ==
    IF Len(S[id].errorsStore) = 0
    THEN Null
    ELSE Some(spreadAll(EmptyObj, MapValues(S[id].errorsStore)))

\* self.isValid without the test of self.isPending
selfIsValidIgnoringPending(S, id) == selfErrors(S, id) = Null

\* self.isValid
selfIsValid(S, id) == selfErrors(S, id) = Null /\ ~selfIsPending(S, id)

----------------------------------------------------------------------------
(* The child collection of a container *)

\* an index of a JavaScript array below its length that holds no element:
\* Object.entries and Object.values skip it, map keeps it
Hole == "<empty>"

\* Object.entries(control.controls), which skips the empty indices of an
\* array; the keys of an array are its indices (0-based in the source,
\* 1-based here)
allControlEntriesMemo(C, id) ==
    IF id \in Arrays
    THEN SelectSeq([i \in DOMAIN C[id] |-> <<i, C[id][i]>>], LAMBDA e : e[2] # Hole)
    ELSE C[id]

\* allControlsMemo: Object.values(control.controls)
allControlsMemo(C, id) ==
    [i \in DOMAIN allControlEntriesMemo(C, id) |-> allControlEntriesMemo(C, id)[i][2]]

\* sizeMemo
size(C, id) == Len(allControlsMemo(C, id))

some(seq, P(_)) == \E i \in DOMAIN seq : P(seq[i])
every(seq, P(_)) == \A i \in DOMAIN seq : P(seq[i])

----------------------------------------------------------------------------
(* The outer getters.  A leaf has the getters of the base (aliases of      *)
(* self); a container has the getters of containerBase, over its children. *)

RECURSIVE isDisabled(_, _, _)
RECURSIVE isTouched(_, _, _)
RECURSIVE isDirty(_, _, _)
RECURSIVE isReadonly(_, _, _)
RECURSIVE isSubmitted(_, _, _)
RECURSIVE isRequired(_, _, _)
RECURSIVE isPending(_, _, _)
RECURSIVE isValid(_, _, _)
RECURSIVE errors(_, _, _)
RECURSIVE rawValue(_, _, _)
RECURSIVE value(_, _, _)

nonDisabledControlsMemo(S, C, id) ==
    SelectSeq(allControlsMemo(C, id), LAMBDA c : ~isDisabled(S, C, c))

childIsValidMemo(S, C, id) ==
    some(nonDisabledControlsMemo(S, C, id), LAMBDA c : isValid(S, C, c))
childIsDisabledMemo(S, C, id) ==
    some(allControlsMemo(C, id), LAMBDA c : isDisabled(S, C, c))
childIsReadonlyMemo(S, C, id) ==
    some(nonDisabledControlsMemo(S, C, id), LAMBDA c : isReadonly(S, C, c))
childIsRequiredMemo(S, C, id) ==
    some(nonDisabledControlsMemo(S, C, id), LAMBDA c : isRequired(S, C, c))
childIsPendingMemo(S, C, id) ==
    some(nonDisabledControlsMemo(S, C, id), LAMBDA c : isPending(S, C, c))
childIsTouchedMemo(S, C, id) ==
    some(nonDisabledControlsMemo(S, C, id), LAMBDA c : isTouched(S, C, c))
childIsDirtyMemo(S, C, id) ==
    some(nonDisabledControlsMemo(S, C, id), LAMBDA c : isDirty(S, C, c))
childIsSubmittedMemo(S, C, id) ==
    some(nonDisabledControlsMemo(S, C, id), LAMBDA c : isSubmitted(S, C, c))

\* children that are valid whatever they hold
childrenAreValidVacuous(S, C, id) == TRUE

childrenAreValidMemo(S, C, id) ==
    every(nonDisabledControlsMemo(S, C, id), LAMBDA c : isValid(S, C, c))
\* a container that its children never disable
childrenNeverDisable(S, C, id) == FALSE

childrenAreDisabledMemo(S, C, id) ==
    IF Len(allControlsMemo(C, id)) = 0 THEN FALSE
    ELSE every(allControlsMemo(C, id), LAMBDA c : isDisabled(S, C, c))
childrenAreReadonlyMemo(S, C, id) ==
    IF Len(nonDisabledControlsMemo(S, C, id)) = 0 THEN FALSE
    ELSE every(nonDisabledControlsMemo(S, C, id), LAMBDA c : isReadonly(S, C, c))
childrenAreRequiredMemo(S, C, id) ==
    IF Len(nonDisabledControlsMemo(S, C, id)) = 0 THEN FALSE
    ELSE every(nonDisabledControlsMemo(S, C, id), LAMBDA c : isRequired(S, C, c))
childrenArePendingMemo(S, C, id) ==
    IF Len(nonDisabledControlsMemo(S, C, id)) = 0 THEN FALSE
    ELSE every(nonDisabledControlsMemo(S, C, id), LAMBDA c : isPending(S, C, c))
\* children.areTouched without the test of the empty list
childrenAreTouchedVacuous(S, C, id) ==
    every(nonDisabledControlsMemo(S, C, id), LAMBDA c : isTouched(S, C, c))
childrenAreTouchedMemo(S, C, id) ==
    IF Len(nonDisabledControlsMemo(S, C, id)) = 0 THEN FALSE
    ELSE every(nonDisabledControlsMemo(S, C, id), LAMBDA c : isTouched(S, C, c))
childrenAreDirtyMemo(S, C, id) ==
    IF Len(nonDisabledControlsMemo(S, C, id)) = 0 THEN FALSE
    ELSE every(nonDisabledControlsMemo(S, C, id), LAMBDA c : isDirty(S, C, c))
childrenAreSubmittedMemo(S, C, id) ==
    IF Len(nonDisabledControlsMemo(S, C, id)) = 0 THEN FALSE
    ELSE every(nonDisabledControlsMemo(S, C, id), LAMBDA c : isSubmitted(S, C, c))

\* the reduce of childrenErrorsMemo.  Its callback tests "curr === null" on
\* the child control curr, which is an object and never null, so every
\* step yields the object { ...prev, ...curr.errors }
RECURSIVE childrenErrorsReduce(_, _, _, _)
childrenErrorsReduce(S, C, cs, prev) ==
    IF cs = <<>> THEN prev
    ELSE childrenErrorsReduce(S, C, Tail(cs),
            Some(SpreadNullable(SpreadNullable(EmptyObj, prev), errors(S, C, Head(cs)))))

childrenErrorsMemo(S, C, id) ==
    childrenErrorsReduce(S, C, nonDisabledControlsMemo(S, C, id), Null)

\* errorsMemo with the two spreads in the other order
errorsMemoChildrenOverride(S, C, id) ==
    IF selfErrors(S, id).isNull /\ childrenErrorsMemo(S, C, id).isNull
    THEN Null
    ELSE Some(SpreadNullable(SpreadNullable(EmptyObj, selfErrors(S, id)),
                             childrenErrorsMemo(S, C, id)))

\* errorsMemo of a container
errorsMemo(S, C, id) ==
    IF selfErrors(S, id).isNull /\ childrenErrorsMemo(S, C, id).isNull
    THEN Null
    ELSE Some(SpreadNullable(SpreadNullable(EmptyObj, childrenErrorsMemo(S, C, id)),
                             selfErrors(S, id)))

isDisabled(S, C, id) ==
    IF id \in Leaves THEN S[id].isDisabled
    ELSE S[id].isDisabled \/ childrenAreDisabledMemo(S, C, id)
\* isTouched as the README of the package writes it
isTouchedReadme(S, C, id) ==
    IF id \in Leaves THEN S[id].isTouched
    ELSE S[id].isTouched \/ childrenAreTouchedMemo(S, C, id)
isTouched(S, C, id) ==
    IF id \in Leaves THEN S[id].isTouched
    ELSE S[id].isTouched \/ childIsTouchedMemo(S, C, id)
isDirty(S, C, id) ==
    IF id \in Leaves THEN S[id].isDirty
    ELSE S[id].isDirty \/ childIsDirtyMemo(S, C, id)
isReadonly(S, C, id) ==
    IF id \in Leaves THEN S[id].isReadonly
    ELSE S[id].isReadonly \/ childrenAreReadonlyMemo(S, C, id)
isSubmitted(S, C, id) ==
    IF id \in Leaves THEN S[id].isSubmitted
    ELSE S[id].isSubmitted \/ childrenAreSubmittedMemo(S, C, id)
isRequired(S, C, id) ==
    IF id \in Leaves THEN S[id].isRequired
    ELSE S[id].isRequired \/ childIsRequiredMemo(S, C, id)
isPending(S, C, id) ==
    IF id \in Leaves THEN selfIsPending(S, id)
    ELSE selfIsPending(S, id) \/ childIsPendingMemo(S, C, id)
errors(S, C, id) ==
    IF id \in Leaves THEN selfErrors(S, id) ELSE errorsMemo(S, C, id)
isValid(S, C, id) ==
    IF id \in Leaves THEN selfIsValid(S, id)
    ELSE selfIsValid(S, id) /\ childrenAreValidMemo(S, C, id)

\* statusMemo with the tests of isPending and isDisabled exchanged
statusPendingFirst(S, C, id) ==
    IF isPending(S, C, id) THEN "PENDING"
    ELSE IF isDisabled(S, C, id) THEN "DISABLED"
    ELSE IF isValid(S, C, id) THEN "VALID"
    ELSE "INVALID"

\* statusMemo
status(S, C, id) ==
    IF isDisabled(S, C, id) THEN "DISABLED"
    ELSE IF isPending(S, C, id) THEN "PENDING"
    ELSE IF isValid(S, C, id) THEN "VALID"
    ELSE "INVALID"

\* the enabled entries without the filter on isDisabled
allEntriesAsEnabled(S, C, id) == allControlEntriesMemo(C, id)

\* enabledControlEntriesMemo (createFormGroup) and enabledControlsMemo
\* (createFormArray)
enabledControlEntriesMemo(S, C, id) ==
    SelectSeq(allControlEntriesMemo(C, id), LAMBDA e : ~isDisabled(S, C, e[2]))

\* a raw value that leaves the disabled children out, as value does
rawValueEnabledOnly(S, C, id) == value(S, C, id)

\* rawValueMemo: Object.fromEntries over all entries for a group, map over
\* controls for an array; the stored raw value for a leaf
rawValue(S, C, id) ==
    IF id \in Leaves THEN S[id].rawValue
    ELSE IF id \in Groups
    THEN fromEntries([i \in DOMAIN allControlEntriesMemo(C, id) |->
            <<allControlEntriesMemo(C, id)[i][1],
              rawValue(S, C, allControlEntriesMemo(C, id)[i][2])>>])
    ELSE [i \in DOMAIN C[id] |->
            IF C[id][i] = Hole THEN Hole ELSE rawValue(S, C, C[id][i])]

\* valueMemo: the same over the enabled entries; rawValue for a leaf
value(S, C, id) ==
    IF id \in Leaves THEN S[id].rawValue
    ELSE IF id \in Groups
    THEN fromEntries([i \in DOMAIN enabledControlEntriesMemo(S, C, id) |->
            <<enabledControlEntriesMemo(S, C, id)[i][1],
              value(S, C, enabledControlEntriesMemo(S, C, id)[i][2])>>])
    ELSE [i \in DOMAIN enabledControlEntriesMemo(S, C, id) |->
            value(S, C, enabledControlEntriesMemo(S, C, id)[i][2])]

----------------------------------------------------------------------------
(* The mutators of createAbstractControlBase and createFormControl: each   *)
(* returns the store function after the call, before any reaction runs.    *)

markDisabled(S, id, input) ==
    IF S[id].isDisabled = input THEN S ELSE [S EXCEPT ![id].isDisabled = input]
markReadonly(S, id, input) ==
    IF S[id].isReadonly = input THEN S ELSE [S EXCEPT ![id].isReadonly = input]
markRequired(S, id, input) ==
    IF S[id].isRequired = input THEN S ELSE [S EXCEPT ![id].isRequired = input]
markDirty(S, id, input) ==
    IF S[id].isDirty = input THEN S ELSE [S EXCEPT ![id].isDirty = input]
\* markTouched that writes isTouched of every control
markTouchedAll(S, id, input) == [k \in Ids |-> [S[k] EXCEPT !.isTouched = input]]
markTouched(S, id, input) ==
    IF S[id].isTouched = input THEN S ELSE [S EXCEPT ![id].isTouched = input]
markSubmitted(S, id, input) ==
    IF S[id].isSubmitted = input THEN S ELSE [S EXCEPT ![id].isSubmitted = input]

\* markPending whose false input clears the whole pendingStore
markPendingClearAll(S, id, input, source) ==
    IF (source \in S[id].pendingStore) = input THEN S
    ELSE [S EXCEPT ![id].pendingStore =
             IF input THEN S[id].pendingStore \cup {source} ELSE {}]

\* markPending(input, { source }) with a boolean input
markPending(S, id, input, source) ==
    IF (source \in S[id].pendingStore) = input THEN S
    ELSE LET newPendingStore ==
                 IF input THEN S[id].pendingStore \cup {source}
                 ELSE S[id].pendingStore \ {source}
         IN  IF S[id].pendingStore = newPendingStore THEN S
             ELSE [S EXCEPT ![id].pendingStore = newPendingStore]

\* markPending(input) with a Set input
markPendingSet(S, id, input) ==
    IF S[id].pendingStore = input THEN S
    ELSE [S EXCEPT ![id].pendingStore = input]

\* setErrors that starts from an empty Map instead of a copy of the store
setErrorsWholesale(S, id, input, source) ==
    LET newErrorsStore ==
            IF input.t = "map" THEN input.map
            ELSE IF input.t = "null" \/ DOMAIN input.obj = {}
                 THEN <<>>
                 ELSE << <<source, input.obj>> >>
    IN  IF isEqualMap(S[id].errorsStore, newErrorsStore) THEN S
        ELSE [S EXCEPT ![id].errorsStore = newErrorsStore]

\* setErrors(input, { source }): input is InMap(m), InNull or InObj(o)
setErrors(S, id, input, source) ==
    LET existingStore == S[id].errorsStore
        newErrorsStore ==
            IF input.t = "map" THEN input.map
            ELSE IF input.t = "null" \/ DOMAIN input.obj = {}
                 THEN MapDelete(existingStore, source)
                 ELSE MapSet(existingStore, source, input.obj)
    IN  IF isEqualMap(existingStore, newErrorsStore) THEN S
        ELSE [S EXCEPT ![id].errorsStore = newErrorsStore]

\* patchErrors that starts from the input instead of a copy of the partition
patchExistingReplace(existingValue, input) ==
    [k \in {j \in DOMAIN input : input[j] # NullVal} |-> input[k]]

\* the errors object patchErrors computes for the source's partition when
\* the partition exists: the keys of the input are written, or deleted when
\* the input maps them to null
patchExisting(existingValue, input) ==
    [k \in ((DOMAIN existingValue) \cup (DOMAIN input))
              \ {j \in DOMAIN input : input[j] = NullVal} |->
        IF k \in DOMAIN input THEN input[k] ELSE existingValue[k]]

\* ... and when it does not exist: the entries of the input that are not null
patchFresh(input) ==
    [k \in {j \in DOMAIN input : input[j] # NullVal} |-> input[k]]

\* patchErrors(input, { source }): input is InMap(m) or InObj(o), where o may
\* map keys to NullVal
patchErrors(S, id, input, source) ==
    LET existingStore == S[id].errorsStore IN
    IF input.t = "map"
    THEN [S EXCEPT ![id].errorsStore = MapUnion(existingStore, input.map)]
    ELSE IF DOMAIN input.obj = {} THEN S
    ELSE IF ~MapHas(existingStore, source) /\ DOMAIN patchFresh(input.obj) = {} THEN S
    ELSE LET newErrors ==
                 IF MapHas(existingStore, source)
                 THEN patchExisting(MapGet(existingStore, source), input.obj)
                 ELSE patchFresh(input.obj)
             newErrorsStore ==
                 IF DOMAIN newErrors = {}
                 THEN MapDelete(existingStore, source)
                 ELSE MapSet(existingStore, source, newErrors)
         IN  IF isEqualMap(existingStore, newErrorsStore) THEN S
             ELSE [S EXCEPT ![id].errorsStore = newErrorsStore]

\* whether patchErrors reaches its setControl: always for a Map, which is
\* stored without a comparison; for an object, unless one of the returns is
\* taken, the last of which is the comparison with the store
patchErrorsWrites(S, id, input, source) ==
    input.t = "map" \/ patchErrors(S, id, input, source) # S

\* the validatorStore setValidators computes; input is InMap(m), InNull,
\* InFn(name) or InArr(names)
newValidatorsStore(S, id, input, source) ==
    IF input.t = "map" THEN input.map
    ELSE LET newValidator == composeValidators(input)
         IN  IF ~newValidator.isNull
             THEN MapSet(S[id].validatorStore, source, newValidator.obj)
             ELSE MapDelete(S[id].validatorStore, source)

\* isEqual(this.self.validatorStore, newValidatorsStore): functions are equal
\* only when they are the same function, and the closure composeValidators
\* builds for an array is a new function at every call
validatorStoreIsEqual(S, id, input, source) ==
    /\ isEqualMap(S[id].validatorStore, newValidatorsStore(S, id, input, source))
    /\ composeValidators(input).isNull \/ ~composeValidators(input).obj.composed

setValidators(S, id, input, source) ==
    IF validatorStoreIsEqual(S, id, input, source) THEN S
    ELSE [S EXCEPT ![id].validatorStore = newValidatorsStore(S, id, input, source)]

\* setData storing a bag that holds the one key
setDataReplacing(S, id, key, input) ==
    IF key \in DOMAIN S[id].data /\ S[id].data[key] = input THEN S
    ELSE [S EXCEPT ![id].data = [k \in {key} |-> input]]

\* setData(key, input)
setData(S, id, key, input) ==
    IF key \in DOMAIN S[id].data /\ S[id].data[key] = input THEN S
    ELSE [S EXCEPT ![id].data = Spread(S[id].data, [k \in {key} |-> input])]

\* setValue of createFormControl
setValue(S, id, v) ==
    IF S[id].rawValue = v THEN S ELSE [S EXCEPT ![id].rawValue = v]

----------------------------------------------------------------------------
(* The re-validation reaction: createComputed(on(...)) of the base         *)

\* control.validator: null when validatorStore is empty (validatorMemo)
hasValidator(S, id) == Len(S[id].validatorStore) > 0

\* the function validatorMemo returns, called with the raw value v
RECURSIVE validatorReduce(_, _, _, _)
validatorReduce(validators, kind, v, err) ==
    IF validators = <<>> THEN err
    ELSE validatorReduce(Tail(validators), kind, v,
            SpreadNullable(err, callValidator(Head(validators), kind, v)))

\* the effective validator calling only the first stored validator
validatorResultFirstOnly(S, C, id) ==
    IF ~hasValidator(S, id) THEN Null
    ELSE LET e == validatorReduce(<<Head(MapValues(S[id].validatorStore))>>, kindOf(id),
                                  rawValue(S, C, id), EmptyObj)
         IN  IF DOMAIN e = {} THEN Null ELSE Some(e)

\* control.validator?.(control.rawValue) ?? null
validatorResult(S, C, id) ==
    IF ~hasValidator(S, id) THEN Null
    ELSE LET e == validatorReduce(MapValues(S[id].validatorStore), kindOf(id),
                                  rawValue(S, C, id), EmptyObj)
         IN  IF DOMAIN e = {} THEN Null ELSE Some(e)

\* the reaction building its Map from nothing instead of from errorsStore
clearingErrorsStore(S, C, id) ==
    IF ~validatorResult(S, C, id).isNull
    THEN << <<DEFAULT_SOURCE, validatorResult(S, C, id).obj>> >>
    ELSE <<>>

\* the reaction without the branch that deletes the partition
staleErrorsStore(S, C, id) ==
    IF ~validatorResult(S, C, id).isNull
    THEN MapSet(S[id].errorsStore, DEFAULT_SOURCE, validatorResult(S, C, id).obj)
    ELSE S[id].errorsStore

\* the errorsStore the reaction computes for control id
revalidatedErrorsStore(S, C, id) ==
    IF ~validatorResult(S, C, id).isNull
    THEN MapSet(S[id].errorsStore, DEFAULT_SOURCE, validatorResult(S, C, id).obj)
    ELSE MapDelete(S[id].errorsStore, DEFAULT_SOURCE)

\* a reaction that stores nothing
revalidateNever(S, C, id) == S[id]

\* the body of the reaction.  (Its first test compares the stored partition
\* with the object the validator has just built, by reference: it never
\* holds.)
revalidate(S, C, id) ==
    IF isEqualMap(S[id].errorsStore, revalidatedErrorsStore(S, C, id))
    THEN S[id]
    ELSE [S[id] EXCEPT !.errorsStore = revalidatedErrorsStore(S, C, id)]

\* the containers that have control id below them
RECURSIVE descendants(_, _)
descendants(C, id) ==
    IF id \in Leaves THEN {}
    ELSE LET cs == {allControlsMemo(C, id)[i] : i \in DOMAIN allControlsMemo(C, id)}
         IN  cs \cup UNION {descendants(C, c) : c \in cs}
ancestors(C, id) == {c \in Containers : id \in descendants(C, c)}

\* The reaction of a control tracks control.validator and, when that is not
\* null, control.rawValue.  runReactions runs the reaction of every control
\* of the set T; each one writes only the errorsStore of its own control.
runReactions(S, C, T) ==
    [id \in Ids |-> IF id \in T THEN revalidate(S, C, id) ELSE S[id]]

\* a raw value that no reaction reads
rawValueUnobserved(S, C, id) == {}

\* the controls whose reaction is triggered when the raw value of leaf id
\* has changed: the leaf and the containers above it, if they have a
\* validator
rawValueObservers(S, C, id) ==
    {c \in {id} \cup ancestors(C, id) : hasValidator(S, c)}

----------------------------------------------------------------------------
(* Construction *)

\* every control before it is created
Fresh == [id \in Ids |-> NewControl("")]

NoControls == [c \in Containers |-> <<>>]

NoOptions ==
    [ disabled |-> FALSE, touched |-> FALSE, dirty |-> FALSE, readonly |-> FALSE,
      submitted |-> FALSE, required |-> FALSE, pending |-> FALSE,
      validators |-> InNull, errors |-> InNull ]

\* the options applied with the errors before the validators
applyOptionsErrorsFirst(S, C, id, o) ==
    LET s1 == IF o.disabled THEN markDisabled(S, id, TRUE) ELSE S
        s2 == IF o.pending THEN markPending(s1, id, TRUE, DEFAULT_SOURCE) ELSE s1
        s3 == IF o.errors.t # "null" THEN patchErrors(s2, id, o.errors, DEFAULT_SOURCE) ELSE s2
    IN  IF o.validators.t # "null"
        THEN IF validatorStoreIsEqual(s3, id, o.validators, DEFAULT_SOURCE)
             THEN s3
             ELSE runReactions(setValidators(s3, id, o.validators, DEFAULT_SOURCE), C, {id})
        ELSE s3

\* the options applied inside one batch(): every write is made first and the
\* reaction that the new validatorStore triggers runs once, at the end
applyOptionsBatch(S, C, id, o) ==
    LET s1 == IF o.disabled THEN markDisabled(S, id, TRUE) ELSE S
        s2 == IF o.touched THEN markTouched(s1, id, TRUE) ELSE s1
        s3 == IF o.dirty THEN markDirty(s2, id, TRUE) ELSE s2
        s4 == IF o.readonly THEN markReadonly(s3, id, TRUE) ELSE s3
        s5 == IF o.submitted THEN markSubmitted(s4, id, TRUE) ELSE s4
        s6 == IF o.required THEN markRequired(s5, id, TRUE) ELSE s5
        s7 == IF o.pending THEN markPending(s6, id, TRUE, DEFAULT_SOURCE) ELSE s6
        s8 == IF o.validators.t # "null"
              THEN setValidators(s7, id, o.validators, DEFAULT_SOURCE)
              ELSE s7
        s9 == IF o.errors.t # "null" THEN patchErrors(s8, id, o.errors, DEFAULT_SOURCE) ELSE s8
    IN  IF o.validators.t # "null"
           /\ ~validatorStoreIsEqual(s7, id, o.validators, DEFAULT_SOURCE)
        THEN runReactions(s9, C, {id})
        ELSE s9

\* The tail of createFormControl, createFormGroup and createFormArray: the
\* options are applied one after the other, not in a batch, so the reaction
\* that setValidators triggers runs before patchErrors.  S is the store with
\* control id new (and, for a leaf, its raw value set), C the child
\* collections.
applyOptions(S, C, id, o) ==
    LET s1 == IF o.disabled THEN markDisabled(S, id, TRUE) ELSE S
        s2 == IF o.touched THEN markTouched(s1, id, TRUE) ELSE s1
        s3 == IF o.dirty THEN markDirty(s2, id, TRUE) ELSE s2
        s4 == IF o.readonly THEN markReadonly(s3, id, TRUE) ELSE s3
        s5 == IF o.submitted THEN markSubmitted(s4, id, TRUE) ELSE s4
        s6 == IF o.required THEN markRequired(s5, id, TRUE) ELSE s5
        s7 == IF o.pending THEN markPending(s6, id, TRUE, DEFAULT_SOURCE) ELSE s6
        s8 == IF o.validators.t # "null"
              THEN IF validatorStoreIsEqual(s7, id, o.validators, DEFAULT_SOURCE)
                   THEN s7
                   ELSE runReactions(setValidators(s7, id, o.validators, DEFAULT_SOURCE),
                                     C, {id})
              ELSE s7
        s9 == IF o.pending THEN markPending(s8, id, TRUE, DEFAULT_SOURCE) ELSE s8
    IN  IF o.errors.t # "null" THEN patchErrors(s9, id, o.errors, DEFAULT_SOURCE) ELSE s9

createFormControl(S, C, id, v, o) ==
    applyOptions([S EXCEPT ![id] = NewControl(v)], C, id, o)

----------------------------------------------------------------------------
(* The operations a caller issues, as actions.  I is the set of controls   *)
(* the caller holds; the other parameters are the sets it chooses the      *)
(* arguments from.                                                         *)

Done(S1) ==
    /\ store' = S1
    /\ nops' = nops + 1
    /\ UNCHANGED controls
    /\ thrown' = NoError
    /\ returned' = NoReturn
    /\ runs' = NoRuns

DoMarkDisabled(I) ==
    \E id \in I, input \in BOOLEAN :
        Done(markDisabled(store, id, input))

DoMarkTouched(I) ==
    \E id \in I, input \in BOOLEAN :
        Done(markTouched(store, id, input))

DoMarkDirty(I) ==
    \E id \in I, input \in BOOLEAN :
        Done(markDirty(store, id, input))

DoMarkReadonly(I) ==
    \E id \in I, input \in BOOLEAN :
        Done(markReadonly(store, id, input))

DoMarkRequired(I) ==
    \E id \in I, input \in BOOLEAN :
        Done(markRequired(store, id, input))

DoMarkSubmitted(I) ==
    \E id \in I, input \in BOOLEAN :
        Done(markSubmitted(store, id, input))

DoMarkPending(I, Srcs) ==
    \E id \in I, input \in BOOLEAN, source \in Srcs :
        Done(markPending(store, id, input, source))

DoSetErrors(I, Inputs, Srcs) ==
    \E id \in I, input \in Inputs, source \in Srcs :
        Done(setErrors(store, id, input, source))

DoPatchErrors(I, Inputs, Srcs) ==
    \E id \in I, input \in Inputs, source \in Srcs :
        Done(patchErrors(store, id, input, source))

\* a write of validatorStore gives control.validator a new value, which
\* triggers the reaction of the control
setValidatorsAndReact(S, C, id, input, source) ==
    IF validatorStoreIsEqual(S, id, input, source) THEN S
    ELSE runReactions(setValidators(S, id, input, source), C, {id})

DoSetValidators(I, Inputs, Srcs) ==
    \E id \in I, input \in Inputs, source \in Srcs :
        Done(setValidatorsAndReact(store, controls, id, input, source))

\* setValue of a leaf: a write of rawValue triggers the reactions that read it
setValueAndReact(S, C, id, v) ==
    IF setValue(S, id, v) = S THEN S
    ELSE runReactions(setValue(S, id, v), C,
                      rawValueObservers(setValue(S, id, v), C, id))

DoSetValue(I, Vals) ==
    \E id \in I \cap Leaves, v \in Vals :
        Done(setValueAndReact(store, controls, id, v))

----------------------------------------------------------------------------
(* Arguments *)

ErrorObjects == { [x |-> "1"], [y |-> "2"], [x |-> "2"], EmptyObj }

ErrorMaps ==
    { <<>>,
      << <<"S1", [x |-> "1"]>> >>,
      << <<"S2", [x |-> "2"]>>, <<"S1", [x |-> "1"]>> >>,
      << <<"S1", EmptyObj>> >> }

PatchObjects ==
    { [x |-> "1"], [x |-> NullVal], [x |-> NullVal, y |-> "2"], EmptyObj }

ValidatorInputs ==
    { InNull, InFn("required"), InFn("isX"), InFn("always"),
      InArr(<<"isX", "always">>), InArr(<<>>),
      InMap(<< <<"S1", Fn("always")>> >>) }

SetErrorsInputs ==
    {InNull} \cup {InObj(o) : o \in ErrorObjects} \cup {InMap(m) : m \in ErrorMaps}
PatchErrorsInputs ==
    {InObj(o) : o \in PatchObjects} \cup {InMap(m) : m \in ErrorMaps}

----------------------------------------------------------------------------
(* Specification SpecErrors: one leaf control "a" created without options, *)
(* and the operations on its errorsStore and pendingStore with every form  *)
(* of argument.                                                            *)

MaxErrorOps == 4

InitErrors ==
    /\ \E v \in Values : store = createFormControl(Fresh, NoControls, "a", v, NoOptions)
    /\ controls = NoControls
    /\ nops = 0
    /\ thrown = NoError
    /\ returned = NoReturn
    /\ runs = NoRuns

ErrSetErrors == nops < MaxErrorOps /\ DoSetErrors({"a"}, SetErrorsInputs, Sources)
ErrPatchErrors == nops < MaxErrorOps /\ DoPatchErrors({"a"}, PatchErrorsInputs, Sources)
ErrMarkPending == nops < MaxErrorOps /\ DoMarkPending({"a"}, {DEFAULT_SOURCE, "S1"})

NextErrors == ErrSetErrors \/ ErrPatchErrors \/ ErrMarkPending

SpecErrors == InitErrors /\ [][NextErrors]_vars

----------------------------------------------------------------------------
(* Specification SpecLeaf: one leaf control "a", created with any of       *)
(* LeafOptions, its value, its validators and its errors.                  *)

MaxLeafOps == 3

LeafOptions ==
    { [NoOptions EXCEPT !.disabled = d, !.pending = p, !.validators = vs, !.errors = es] :
        d \in BOOLEAN, p \in BOOLEAN,
        vs \in {InNull, InFn("required")},
        es \in {InNull, InObj([error |-> "true"])} }

LeafErrorInputs == {InNull, InObj([x |-> "1"]), InObj([isMissing |-> "true"])}

InitLeaf ==
    /\ \E v \in Values, o \in LeafOptions :
          store = createFormControl(Fresh, NoControls, "a", v, o)
    /\ controls = NoControls
    /\ nops = 0
    /\ thrown = NoError
    /\ returned = NoReturn
    /\ runs = NoRuns

LeafMarkDisabled == nops < MaxLeafOps /\ DoMarkDisabled({"a"})
LeafMarkPending == nops < MaxLeafOps /\ DoMarkPending({"a"}, {DEFAULT_SOURCE})
LeafSetErrors == nops < MaxLeafOps /\ DoSetErrors({"a"}, LeafErrorInputs, {DEFAULT_SOURCE, "S1"})
LeafSetValidators ==
    nops < MaxLeafOps /\ DoSetValidators({"a"}, ValidatorInputs, {DEFAULT_SOURCE, "S1"})
LeafSetValue == nops < MaxLeafOps /\ DoSetValue({"a"}, Values)

NextLeaf ==
    \/ LeafMarkDisabled
    \/ LeafMarkPending
    \/ LeafSetErrors
    \/ LeafSetValidators
    \/ LeafSetValue

SpecLeaf == InitLeaf /\ [][NextLeaf]_vars

----------------------------------------------------------------------------
(* Specification Spec: a tree of controls.  The root is the FormGroup "g"; *)
(* the shapes are a flat group, a group with a nested group and a group    *)
(* with an array.  The array "r" is created empty when it is not part of   *)
(* the shape.  In the flat group leaf "a" is created with no option or     *)
(* with all of them (the "all options" test); everything else is created   *)
(* without options.                                                        *)

FlatShape ==
    [g |-> << <<"a", "a">>, <<"b", "b">> >>, h |-> <<>>, r |-> <<>>]
NestedShape ==
    [g |-> << <<"a", "a">>, <<"h", "h">> >>, h |-> << <<"b", "b">>, <<"c", "c">> >>, r |-> <<>>]
ArrayShape ==
    [g |-> << <<"a", "a">>, <<"r", "r">> >>, h |-> <<>>, r |-> <<"b", "c">>]
Shapes == {FlatShape, NestedShape, ArrayShape}

AllOptions ==
    [ disabled |-> TRUE, touched |-> TRUE, dirty |-> TRUE, readonly |-> TRUE,
      submitted |-> TRUE, required |-> FALSE, pending |-> TRUE,
      validators |-> InFn("never"), errors |-> InObj([error |-> "true"]) ]

\* the controls a caller holds: the root, the controls below it and the array
held(C) == {"g", "r"} \cup descendants(C, "g")

TreeErrorInputs == {InNull, InObj([x |-> "1"]), InObj([x |-> "2", y |-> "2"])}

Init ==
    /\ controls \in Shapes
    /\ \E o \in (IF controls = FlatShape THEN {NoOptions, AllOptions} ELSE {NoOptions}) :
          store = createFormControl(Fresh, controls, "a", "", o)
    /\ nops = 0
    /\ thrown = NoError
    /\ returned = NoReturn
    /\ runs = NoRuns

MarkDisabled == nops < MaxOps /\ DoMarkDisabled(held(controls))
MarkTouched == nops < MaxOps /\ DoMarkTouched(held(controls))
MarkDirty == nops < MaxOps /\ DoMarkDirty(held(controls))
MarkReadonly == nops < MaxOps /\ DoMarkReadonly(held(controls))
MarkRequired == nops < MaxOps /\ DoMarkRequired(held(controls))
MarkSubmitted == nops < MaxOps /\ DoMarkSubmitted(held(controls))
MarkPending == nops < MaxOps /\ DoMarkPending(held(controls), {DEFAULT_SOURCE})
SetErrors == nops < MaxOps /\ DoSetErrors(held(controls), TreeErrorInputs, {DEFAULT_SOURCE})
SetValue == nops < MaxOps /\ DoSetValue(held(controls), Values)

Next ==
    \/ MarkDisabled
    \/ MarkTouched
    \/ MarkDirty
    \/ MarkReadonly
    \/ MarkRequired
    \/ MarkSubmitted
    \/ MarkPending
    \/ SetErrors
    \/ SetValue

Spec == Init /\ [][Next]_vars

----------------------------------------------------------------------------
(* Specification SpecPending: one leaf control "a" created without options, *)
(* marked pending by sources and by whole sets, and given errors.           *)

MaxPendingOps == 3

PendingErrorInputs == {InNull, InObj([x |-> "1"])}

InitPending ==
    /\ \E v \in Values : store = createFormControl(Fresh, NoControls, "a", v, NoOptions)
    /\ controls = NoControls
    /\ nops = 0
    /\ thrown = NoError
    /\ returned = NoReturn
    /\ runs = NoRuns

PendMarkPending == nops < MaxPendingOps /\ DoMarkPending({"a"}, Sources)
PendMarkPendingSet ==
    /\ nops < MaxPendingOps
    /\ \E input \in SUBSET Sources : Done(markPendingSet(store, "a", input))
PendSetErrors ==
    nops < MaxPendingOps /\ DoSetErrors({"a"}, PendingErrorInputs, {DEFAULT_SOURCE, "S1"})

NextPending == PendMarkPending \/ PendMarkPendingSet \/ PendSetErrors

SpecPending == InitPending /\ [][NextPending]_vars

----------------------------------------------------------------------------
(* The operations of a container: setControl of createFormGroup and of     *)
(* createFormArray, push, and setControls, removeControl, setValue and     *)
(* patchValue of createAbstractControlContainerBase.                       *)

\* null as the newControl argument of setControl, and the undefined that
\* controls[key] is for a key without a child
NoControl == "null"

\* the errors setValue and patchValue of a container throw
SizeError == "setValue error: you must provide a value for each control."
SetValueKeyError == "Invalid setValue value key"
PatchValueKeyError == "Invalid patchValue value key"

\* The index of an array that a property key names: Object.entries gives
\* the indices of an array as the strings "0", "1", ... (0 for a key that
\* names no index of the model; indices are 1-based here)
indexOfKey(key) ==
    CASE key = "0" -> 1 [] key = "1" -> 2 [] key = "2" -> 3 [] key = "3" -> 4
      [] key = "4" -> 5 [] key = "5" -> 6 [] OTHER -> 0

\* control.controls[key]
controlAt(C, id, key) ==
    IF id \in Arrays
    THEN IF indexOfKey(key) \in DOMAIN C[id] /\ C[id][indexOfKey(key)] # Hole
         THEN C[id][indexOfKey(key)]
         ELSE NoControl
    ELSE IF \E i \in DOMAIN C[id] : C[id][i][1] = key
         THEN C[id][CHOOSE i \in DOMAIN C[id] : C[id][i][1] = key][2]
         ELSE NoControl

\* isEqual on two controls: two different controls differ in their id and in
\* their function-valued properties, so only a control and itself are equal
isEqualControl(a, b) == a = b

\* setControl that leaves the group with no entry but the one it is given
groupSetControlOnly(C, id, key, newControl) ==
    [C EXCEPT ![id] = IF newControl = NoControl THEN <<>> ELSE << <<key, newControl>> >>]

\* setControl of createFormGroup: delete state.controls[key] for null,
\* state.controls[key] = newControl otherwise (a new key comes last)
groupSetControl(C, id, key, newControl) ==
    IF newControl = NoControl
    THEN IF controlAt(C, id, key) = NoControl THEN C
         ELSE [C EXCEPT ![id] = SelectSeq(C[id], LAMBDA e : e[1] # key)]
    ELSE IF isEqualControl(controlAt(C, id, key), newControl) THEN C
    ELSE IF controlAt(C, id, key) = NoControl
         THEN [C EXCEPT ![id] = Append(C[id], <<key, newControl>>)]
         ELSE [C EXCEPT ![id] =
                  [i \in DOMAIN C[id] |->
                      IF C[id][i][1] = key THEN <<key, newControl>> ELSE C[id][i]]]

\* setControl of createFormArray at the 1-based index key: splice(key, 1)
\* for null, state.controls[key] = newControl otherwise, which leaves the
\* indices between the old end and key empty
arraySetControl(C, id, key, newControl) ==
    IF newControl = NoControl
    THEN IF key \notin DOMAIN C[id] \/ C[id][key] = Hole THEN C
         ELSE [C EXCEPT ![id] =
                  [i \in 1..(Len(C[id]) - 1) |->
                      IF i < key THEN C[id][i] ELSE C[id][i + 1]]]
    ELSE IF key \in DOMAIN C[id] /\ isEqualControl(C[id][key], newControl) THEN C
    ELSE IF key \in DOMAIN C[id]
         THEN [C EXCEPT ![id][key] = newControl]
         ELSE [C EXCEPT ![id] =
                  [i \in 1..key |->
                      IF i \in DOMAIN C[id] THEN C[id][i]
                      ELSE IF i = key THEN newControl ELSE Hole]]

\* push that stores the control at index 0, before the children
pushFront(C, id, control) == [C EXCEPT ![id] = <<control>> \o C[id]]

\* push(control) of createFormArray
push(C, id, control) == arraySetControl(C, id, Len(C[id]) + 1, control)

\* isEqual(control.controls, controls): the same keys with the same
\* controls, in any order for an object, in the same order for an array
isEqualControls(id, a, b) ==
    IF id \in Arrays THEN a = b
    ELSE {a[i] : i \in DOMAIN a} = {b[i] : i \in DOMAIN b}

\* The store setter called with a path and an object, for a property that
\* holds an object: the object is merged into the old one key by key, so
\* that a key only the old object has stays and a key only the new object
\* has comes last
mergeStoreNode(old, new) ==
    LET newAt(k) == new[CHOOSE j \in DOMAIN new : new[j][1] = k]
        has(seq, k) == \E j \in DOMAIN seq : seq[j][1] = k
    IN  [i \in DOMAIN old |-> IF has(new, old[i][1]) THEN newAt(old[i][1]) ELSE old[i]]
          \o SelectSeq(new, LAMBDA e : ~has(old, e[1]))

\* setControls(controls): setControl('controls', controls) of the store,
\* which merges an object and replaces an array
setControls(C, id, newControls) ==
    IF isEqualControls(id, C[id], newControls) THEN C
    ELSE IF id \in Arrays THEN [C EXCEPT ![id] = newControls]
    ELSE [C EXCEPT ![id] = mergeStoreNode(C[id], newControls)]

\* The argument of removeControl: a child control or a key
ByControl(c) == [t |-> "control", control |-> c, key |-> ""]
ByKey(k) == [t |-> "key", control |-> NoControl, key |-> k]

\* removeControl(arg): the loop compares every child with the argument by
\* identity and calls setControl(key, null) for the first child that is the
\* argument; a key is no child, so that for a key the loop ends without a
\* call
removeControl(C, id, arg) ==
    LET es == allControlEntriesMemo(C, id)
        found == {i \in DOMAIN es : arg.t = "control" /\ es[i][2] = arg.control}
    IN  IF found = {} THEN C
        ELSE LET first == CHOOSE i \in found : \A j \in found : i <= j
             IN  IF id \in Arrays THEN arraySetControl(C, id, es[first][1], NoControl)
                 ELSE groupSetControl(C, id, es[first][1], NoControl)

\* One entry of Object.entries(value) for the value given to setValue or
\* patchValue: the raw value of a leaf, or the entries of the value of a
\* container
LeafEntry(k, v) == [key |-> k, isSub |-> FALSE, leaf |-> v, sub |-> <<>>]
SubEntry(k, es) == [key |-> k, isSub |-> TRUE, leaf |-> "", sub |-> es]

\* the outcome of a call: the store it leaves and the error it throws
Outcome(S, err) == [store |-> S, thrown |-> err]

\* setValue(value) of a container, entries being Object.entries(value); the
\* writes made before a throw stay
RECURSIVE containerSetValue(_, _, _, _)
RECURSIVE setValueEach(_, _, _, _)
setValueEach(S, C, id, entries) ==
    IF entries = <<>> THEN Outcome(S, NoError)
    ELSE LET c == controlAt(C, id, Head(entries).key) IN
         IF c = NoControl THEN Outcome(S, SetValueKeyError)
         ELSE LET r == IF c \in Leaves
                       THEN Outcome(setValue(S, c, Head(entries).leaf), NoError)
                       ELSE containerSetValue(S, C, c, Head(entries).sub)
              IN  IF r.thrown # NoError THEN r
                  ELSE setValueEach(r.store, C, id, Tail(entries))

\* setValue of a container without the comparison of the number of entries
\* with the size
containerSetValueUnchecked(S, C, id, entries) == setValueEach(S, C, id, entries)

containerSetValue(S, C, id, entries) ==
    IF Len(entries) # size(C, id) THEN Outcome(S, SizeError)
    ELSE setValueEach(S, C, id, entries)

\* patchValue that does what setValue does
patchValueAsSetValue(S, C, id, entries) == containerSetValue(S, C, id, entries)

\* patchValue(value) of a container
RECURSIVE containerPatchValue(_, _, _, _)
containerPatchValue(S, C, id, entries) ==
    IF entries = <<>> THEN Outcome(S, NoError)
    ELSE LET c == controlAt(C, id, Head(entries).key) IN
         IF c = NoControl THEN Outcome(S, PatchValueKeyError)
         ELSE LET r == IF c \in Leaves
                       THEN Outcome(setValue(S, c, Head(entries).leaf), NoError)
                       ELSE containerPatchValue(S, C, c, Head(entries).sub)
              IN  IF r.thrown # NoError THEN r
                  ELSE containerPatchValue(r.store, C, id, Tail(entries))

\* The reactions that run when a batch of writes has taken the controls from
\* (S0, C0) to (S1, C1): those of the controls that have a validator and
\* whose raw value is no longer the same
react(S0, C0, S1, C1) ==
    runReactions(S1, C1,
        {id \in Ids : hasValidator(S1, id) /\ rawValue(S1, C1, id) # rawValue(S0, C0, id)})

\* the reactions running after every write of a raw value instead of at the
\* end of the batch: a control below which two leaves have a new raw value
\* has its validator called with the state in which one of them is written
runsPerWrite(S0, C0, S1, C1) ==
    [id \in Ids |->
        IF hasValidator(S1, id) /\ rawValue(S1, C1, id) # rawValue(S0, C0, id)
        THEN LET written == {c \in descendants(C1, id) \cap Leaves :
                                S1[c].rawValue # S0[c].rawValue}
                 last == CHOOSE c \in written : TRUE
             IN  IF Cardinality(written) >= 2
                 THEN << rawValue([S1 EXCEPT ![last] = S0[last]], C1, id),
                         rawValue(S1, C1, id) >>
                 ELSE << rawValue(S1, C1, id) >>
        ELSE <<>>]

\* The raw values the reactions that react runs call their validators with:
\* the writes of a batch() are all made when its reactions run, and each runs
\* once
runsOf(S0, C0, S1, C1) ==
    [id \in Ids |->
        IF hasValidator(S1, id) /\ rawValue(S1, C1, id) # rawValue(S0, C0, id)
        THEN << rawValue(S1, C1, id) >>
        ELSE <<>>]

\* isAbstractControlContainer(prev)
isAbstractControlContainer(prev) == prev \in Containers

\* The state fields that children.markX marks
MarkKinds ==
    {"Dirty", "Disabled", "Pending", "Readonly", "Required", "Submitted", "Touched"}

\* c.markX(value), and c.markPending(value, options) for Pending
markKind(S, id, X, v, source) ==
    CASE X = "Dirty" -> markDirty(S, id, v)
      [] X = "Disabled" -> markDisabled(S, id, v)
      [] X = "Pending" -> markPending(S, id, v, source)
      [] X = "Readonly" -> markReadonly(S, id, v)
      [] X = "Required" -> markRequired(S, id, v)
      [] X = "Submitted" -> markSubmitted(S, id, v)
      [] X = "Touched" -> markTouched(S, id, v)

RECURSIVE childrenMarkFrom(_, _, _, _, _, _, _, _)
\* children.markX(value, options): Object.values(control.controls).forEach,
\* from child i on; each child is marked, and with deep the children of a
\* child that is a container are marked with the same options
childrenMarkFrom(S, C, id, X, v, deep, source, i) ==
    IF i > size(C, id) THEN S
    ELSE LET c == allControlsMemo(C, id)[i]
             S1 == markKind(S, c, X, v, source)
             S2 == IF ~deep \/ ~isAbstractControlContainer(c) THEN S1
                   ELSE childrenMarkFrom(S1, C, c, X, v, deep, source, 1)
         IN  childrenMarkFrom(S2, C, id, X, v, deep, source, i + 1)

\* children.markX that marks the container too
childrenMarkAndSelf(S, C, id, X, v, deep, source) ==
    markKind(childrenMarkFrom(S, C, id, X, v, deep, source, 1), id, X, v, source)

childrenMark(S, C, id, X, v, deep, source) ==
    childrenMarkFrom(S, C, id, X, v, deep, source, 1)

\* the error get throws
MissingArguments == "Missing arguments for AbstractControlContainer#get()"

\* what indexing an object or an array with a key it does not have gives
Undefined == "undefined"

\* that.controls[args[0]]: get with one argument
getOne(C, id, key) ==
    IF controlAt(C, id, key) = NoControl THEN Undefined ELSE controlAt(C, id, key)

\* get that follows the first key only
getFirstOnly(C, id, args) ==
    IF args = <<>> THEN [returned |-> NoReturn, thrown |-> MissingArguments]
    ELSE [returned |-> getOne(C, id, Head(args)), thrown |-> NoError]

\* args.reduce((prev, curr) => isAbstractControlContainer(prev) ?
\* prev.get(curr) : null, that)
RECURSIVE getReduce(_, _, _)
getReduce(C, prev, args) ==
    IF args = <<>> THEN prev
    ELSE getReduce(C,
            IF isAbstractControlContainer(prev) THEN getOne(C, prev, Head(args))
            ELSE NoControl,
            Tail(args))

\* get(...args) of a container: what it returns and the error it throws
get(C, id, args) ==
    IF Len(args) = 0 THEN [returned |-> NoReturn, thrown |-> MissingArguments]
    ELSE IF Len(args) = 1
    THEN [returned |-> getOne(C, id, args[1]), thrown |-> NoError]
    ELSE [returned |-> getReduce(C, id, args), thrown |-> NoError]

\* a call of get, which writes nothing
DoneGet(r) ==
    /\ returned' = r.returned
    /\ thrown' = r.thrown
    /\ nops' = nops + 1
    /\ runs' = NoRuns
    /\ UNCHANGED <<store, controls>>

\* a call that changes the child collections
DoneControls(C1) ==
    /\ controls' = C1
    /\ store' = react(store, controls, store, C1)
    /\ runs' = runsOf(store, controls, store, C1)
    /\ nops' = nops + 1
    /\ thrown' = NoError
    /\ returned' = NoReturn

\* a call of setValue, patchValue or children.markX of a container, with its
\* outcome r
DoneOutcome(r) ==
    /\ store' = react(store, controls, r.store, controls)
    /\ runs' = runsOf(store, controls, r.store, controls)
    /\ thrown' = r.thrown
    /\ returned' = NoReturn
    /\ nops' = nops + 1
    /\ UNCHANGED controls

----------------------------------------------------------------------------
(* Specification SpecContainer: the FormGroup "g" and the FormArray "r"    *)
(* under the operations that change their children and their values.  The  *)
(* leaves are created with the values "1", "2" and "1".                    *)

MaxContainerOps == 2

\* g = {firstName: a, lastName: b}, r = [c]
NameShape ==
    [g |-> << <<"firstName", "a">>, <<"lastName", "b">> >>, h |-> <<>>, r |-> <<"c">>]
\* g = {firstName: a, list: r}, r = [b, c]
ListShape ==
    [g |-> << <<"firstName", "a">>, <<"list", "r">> >>, h |-> <<>>, r |-> <<"b", "c">>]

\* the keys setControl of g is called with; only leaves are given to it
GroupKeys == {"firstName", "lastName", "middleName"}

\* the values given to setValue and patchValue of g and of r
GroupValueInputs ==
    { << LeafEntry("firstName", "2"), LeafEntry("lastName", "1") >>,
      << LeafEntry("lastName", "1"), LeafEntry("firstName", "2") >>,
      << LeafEntry("firstName", "2") >>,
      << LeafEntry("firstName", "2"), LeafEntry("middleName", "1") >>,
      << LeafEntry("firstName", "2"),
         SubEntry("list", << LeafEntry("0", "1"), LeafEntry("1", "1") >>) >>,
      << SubEntry("list", << LeafEntry("1", "2") >>) >>,
      << LeafEntry("firstName", "2"), SubEntry("list", << LeafEntry("0", "1") >>) >>,
      << >> }
ArrayValueInputs ==
    { << LeafEntry("0", "2") >>,
      << LeafEntry("0", "2"), LeafEntry("1", "2") >>,
      << LeafEntry("1", "1") >>,
      << LeafEntry("2", "1") >> }
ValueInputs(id) == IF id \in Arrays THEN ArrayValueInputs ELSE GroupValueInputs

\* the collections given to setControls of g and of r
ControlsInputs ==
    { << <<"lastName", "b">>, <<"firstName", "a">> >>,
      << <<"firstName", "c">> >>,
      << >> }
ArrayControlsInputs == { <<"c", "b">>, <<"a">>, << >> }
ControlsInputsOf(id) == IF id \in Arrays THEN ArrayControlsInputs ELSE ControlsInputs

\* the key paths given to get
GetInputs ==
    { << >>, <<"firstName">>, <<"middleName">>, <<"list">>, <<"0">>, <<"5">>,
      <<"list", "0">>, <<"list", "5">>, <<"firstName", "0">>, <<"middleName", "0">>,
      <<"list", "0", "firstName">> }

InitContainer ==
    /\ controls \in {NameShape, ListShape}
    /\ store = [Fresh EXCEPT !["a"] = NewControl("1"), !["b"] = NewControl("2"),
                             !["c"] = NewControl("1")]
    /\ nops = 0
    /\ thrown = NoError
    /\ returned = NoReturn
    /\ runs = NoRuns

ConSetControl ==
    /\ nops < MaxContainerOps
    /\ \/ \E key \in GroupKeys, c \in Leaves \cup {NoControl} :
             DoneControls(groupSetControl(controls, "g", key, c))
       \/ \E key \in 1..(Len(controls["r"]) + 1), c \in Leaves \cup {NoControl} :
             DoneControls(arraySetControl(controls, "r", key, c))
ConPush ==
    /\ nops < MaxContainerOps
    /\ \E c \in Leaves : DoneControls(push(controls, "r", c))
ConSetControls ==
    /\ nops < MaxContainerOps
    /\ \E id \in {"g", "r"} : \E cs \in ControlsInputsOf(id) :
          DoneControls(setControls(controls, id, cs))
ConRemoveControl ==
    /\ nops < MaxContainerOps
    /\ \E id \in {"g", "r"},
          arg \in {ByControl(c) : c \in Leaves} \cup {ByKey(k) : k \in {"firstName", "0"}} :
             DoneControls(removeControl(controls, id, arg))
ConSetValue ==
    /\ nops < MaxContainerOps
    /\ \E id \in {"g", "r"} : \E entries \in ValueInputs(id) :
          DoneOutcome(containerSetValue(store, controls, id, entries))
ConPatchValue ==
    /\ nops < MaxContainerOps
    /\ \E id \in {"g", "r"} : \E entries \in ValueInputs(id) :
          DoneOutcome(containerPatchValue(store, controls, id, entries))
ConMarkDisabled == nops < MaxContainerOps /\ DoMarkDisabled(Leaves \cup {"r"})
ConGet ==
    /\ nops < MaxContainerOps
    /\ \E id \in {"g", "r"} : \E args \in GetInputs : DoneGet(get(controls, id, args))

NextContainer ==
    \/ ConSetControl
    \/ ConPush
    \/ ConSetControls
    \/ ConRemoveControl
    \/ ConSetValue
    \/ ConPatchValue
    \/ ConMarkDisabled
    \/ ConGet

SpecContainer == InitContainer /\ [][NextContainer]_vars

----------------------------------------------------------------------------
(* Specification SpecChildren: children.markX of the FormGroup "g" and of   *)
(* the FormArray "r"; leaf b is created with or without {pending: true}.   *)

MaxChildrenOps == 2

\* the sources children.markX is called with
markSources(X) == IF X = "Pending" THEN {DEFAULT_SOURCE, "S1"} ELSE {DEFAULT_SOURCE}

InitChildren ==
    /\ controls \in {NameShape, ListShape}
    /\ \E p \in BOOLEAN :
          store = createFormControl(Fresh, NoControls, "b", "2",
                                    [NoOptions EXCEPT !.pending = p])
    /\ nops = 0
    /\ thrown = NoError
    /\ returned = NoReturn
    /\ runs = NoRuns

ChildrenMark ==
    /\ nops < MaxChildrenOps
    /\ \E id \in {"g", "r"}, X \in MarkKinds, v \in BOOLEAN, deep \in BOOLEAN :
       \E source \in markSources(X) :
          DoneOutcome(Outcome(childrenMark(store, controls, id, X, v, deep, source),
                              NoError))

NextChildren == ChildrenMark

SpecChildren == InitChildren /\ [][NextChildren]_vars

----------------------------------------------------------------------------
(* Specification SpecBatch: setValue, patchValue and children.markX of the  *)
(* FormGroup "g" and the FormArray "r" when the containers and the leaf "b" *)
(* have validators, so that the calls trigger re-validations.               *)

MaxBatchOps == 2

\* the options of a control created with the validators vs
WithValidators(vs) == [NoOptions EXCEPT !.validators = vs]

InitBatch ==
    /\ controls \in {NameShape, ListShape}
    /\ \E vb \in {InNull, InFn("isX")}, vr \in {InNull, InFn("required")},
          vg \in {InNull, InFn("always")} :
          LET s0 == [Fresh EXCEPT !["a"] = NewControl("1"), !["c"] = NewControl("1")]
              s1 == createFormControl(s0, controls, "b", "2", WithValidators(vb))
              s2 == createFormControl(s1, controls, "r", "", WithValidators(vr))
          IN  store = createFormControl(s2, controls, "g", "", WithValidators(vg))
    /\ nops = 0
    /\ thrown = NoError
    /\ returned = NoReturn
    /\ runs = NoRuns

\* one call of setValue, patchValue or children.markX of a container
BatchCall ==
    /\ nops < MaxBatchOps
    /\ \/ \E id \in {"g", "r"} : \E entries \in ValueInputs(id) :
             DoneOutcome(containerSetValue(store, controls, id, entries))
       \/ \E id \in {"g", "r"} : \E entries \in ValueInputs(id) :
             DoneOutcome(containerPatchValue(store, controls, id, entries))
       \/ \E id \in {"g", "r"}, X \in {"Disabled", "Touched"}, v \in BOOLEAN,
             deep \in BOOLEAN :
             DoneOutcome(Outcome(childrenMark(store, controls, id, X, v, deep,
                                              DEFAULT_SOURCE), NoError))

NextBatch == BatchCall

SpecBatch == InitBatch /\ [][NextBatch]_vars

----------------------------------------------------------------------------
(* Specification SpecFrame: one call of a mutator on a control of the tree  *)
(* g = {firstName: a, list: [b, c]}, whose controls are created with or     *)
(* without the data {k1: "1"}.                                              *)

MaxFrameOps == 2

\* the controls the mutators are called on: the root, a container with a
\* parent and a leaf
FrameIds == {"g", "r", "b"}

DataKeys == {"k1", "k2"}
DataValues == {"1", "2"}

\* the errors given to setErrors: null, an object, a partitioned Map
FrameErrorInputs == TreeErrorInputs \cup {InMap(<< <<"S1", [x |-> "1"]>> >>)}

DoSetData(I, Keys, Vals) ==
    \E id \in I, key \in Keys, input \in Vals :
        Done(setData(store, id, key, input))

InitFrame ==
    /\ controls = ListShape
    /\ \E d \in {EmptyObj, [k1 |-> "1"]} :
          store = [id \in Ids |-> [NewControl("") EXCEPT !.data = d]]
    /\ nops = 0
    /\ thrown = NoError
    /\ returned = NoReturn
    /\ runs = NoRuns

\* one call of a mutator on a control of I
mutatorCall(I) ==
    \/ DoMarkDisabled(I)
    \/ DoMarkTouched(I)
    \/ DoMarkDirty(I)
    \/ DoMarkReadonly(I)
    \/ DoMarkRequired(I)
    \/ DoMarkSubmitted(I)
    \/ DoMarkPending(I, {DEFAULT_SOURCE, "S1"})
    \/ DoSetErrors(I, FrameErrorInputs, {DEFAULT_SOURCE})
    \/ DoPatchErrors(I, {InObj(o) : o \in PatchObjects}, {DEFAULT_SOURCE})
    \/ DoSetValidators(I, ValidatorInputs, {DEFAULT_SOURCE})
    \/ DoSetData(I, DataKeys, DataValues)

\* one call of a mutator on one of the controls of FrameIds
FrameCall == nops < MaxFrameOps /\ mutatorCall(FrameIds)

NextFrame == FrameCall

SpecFrame == InitFrame /\ [][NextFrame]_vars

----------------------------------------------------------------------------
(* Specification SpecValue: one FormControl whose raw value is a primitive, *)
(* a plain object or an array.  The operations are setValue and the marks.  *)

MaxValueOps == 2

\* A raw value: t tells whether it is a primitive (s), a plain object or an
\* array (o: the own properties; those of an array are its indices)
Prim(s) == [t |-> "prim", s |-> s, o |-> EmptyObj]
Obj(o) == [t |-> "obj", s |-> "", o |-> o]
Arr(o) == [t |-> "arr", s |-> "", o |-> o]

IndexKeys == {"0", "1"}

\* isEqual of two raw values (fast-deep-equal): the same constructor and the
\* same own properties; of an array only the elements are compared
isEqualValue(a, b) ==
    /\ a.t = b.t
    /\ a.t = "prim" => a.s = b.s
    /\ a.t = "obj" => a.o = b.o
    /\ a.t = "arr" =>
          /\ DOMAIN a.o \cap IndexKeys = DOMAIN b.o \cap IndexKeys
          /\ \A k \in DOMAIN a.o \cap IndexKeys : a.o[k] = b.o[k]

\* a value the store wraps: a plain object or an array
isWrappable(v) == v.t \in {"obj", "arr"}

\* setControl('rawValue', value): the store setter merges a plain object
\* into the object or array the property holds, and replaces the property
\* otherwise
updatePath(prev, next) ==
    IF isWrappable(prev) /\ isWrappable(next) /\ next.t # "arr"
    THEN [prev EXCEPT !.o = Spread(prev.o, next.o)]
    ELSE next

\* setValue of createFormControl, for a raw value of any type
setRawValue(S, id, v) ==
    IF isEqualValue(S[id].rawValue, v) THEN S
    ELSE [S EXCEPT ![id].rawValue = updatePath(S[id].rawValue, v)]

RawValues ==
    { Prim(""), Prim("x"), Obj(EmptyObj), Obj([a |-> "1"]), Obj([a |-> "2"]),
      Obj([b |-> "1"]), Arr(EmptyObj), Arr([k \in {"0"} |-> "1"]) }

InitValue ==
    /\ \E v \in RawValues : store = createFormControl(Fresh, NoControls, "a", v, NoOptions)
    /\ controls = NoControls
    /\ nops = 0
    /\ thrown = NoError
    /\ returned = NoReturn
    /\ runs = NoRuns

\* one call of setValue or of a mark on the control; no validator is set, so
\* a new raw value triggers no re-validation
ValueCall ==
    /\ nops < MaxValueOps
    /\ \/ \E v \in RawValues : Done(setRawValue(store, "a", v))
       \/ DoMarkDisabled({"a"})
       \/ DoMarkTouched({"a"})
       \/ DoMarkDirty({"a"})

NextValue == ValueCall

SpecValue == InitValue /\ [][NextValue]_vars

----------------------------------------------------------------------------
(* Properties *)

\* the partition of source src in the errorsStore of control id, or Null
partitionOf(S, id, src) ==
    IF MapHas(S[id].errorsStore, src) THEN Some(MapGet(S[id].errorsStore, src)) ELSE Null

childIds(C, c) == {allControlsMemo(C, c)[i] : i \in DOMAIN allControlsMemo(C, c)}
enabledChildIds(S, C, c) == {k \in childIds(C, c) : ~isDisabled(S, C, k)}

\* C1: the rawValue of an object container has one entry per child, equal to
\* the child's rawValue, and its value has exactly the entries of the
\* children that are not disabled, each equal to the child's value; with
\* children a and b of value "", value is {b: ""} while a is disabled and
\* {a: "", b: ""} while it is not, and rawValue is {a: "", b: ""} throughout.
C1_GroupValue ==
    /\ \A c \in Groups :
          LET es == controls[c] IN
          /\ DOMAIN rawValue(store, controls, c) = {es[i][1] : i \in DOMAIN es}
          /\ \A i \in DOMAIN es :
                rawValue(store, controls, c)[es[i][1]] = rawValue(store, controls, es[i][2])
          /\ DOMAIN value(store, controls, c) =
                {es[i][1] : i \in {j \in DOMAIN es : ~isDisabled(store, controls, es[j][2])}}
          /\ \A i \in DOMAIN es :
                ~isDisabled(store, controls, es[i][2]) =>
                    value(store, controls, c)[es[i][1]] = value(store, controls, es[i][2])
    /\ (/\ controls = FlatShape
        /\ store["a"].rawValue = "" /\ store["b"].rawValue = ""
        /\ ~store["b"].isDisabled)
       => /\ rawValue(store, controls, "g") = [a |-> "", b |-> ""]
          /\ value(store, controls, "g") =
                IF store["a"].isDisabled THEN [b |-> ""] ELSE [a |-> "", b |-> ""]

\* a.markDisabled(true) was the one call on the flat group of two fresh leaves
C1_Witness ==
    /\ controls = FlatShape /\ nops = 1
    /\ store["a"] = [NewControl("") EXCEPT !.isDisabled = TRUE]
    /\ value(store, controls, "g") = [b |-> ""]
    /\ rawValue(store, controls, "g") = [a |-> "", b |-> ""]

\* the shallow merge of the objects of a sequence: each key has the value of
\* the last object that has it
mergeLast(objs) ==
    [k \in UNION {DOMAIN objs[i] : i \in DOMAIN objs} |->
        objs[CHOOSE i \in DOMAIN objs :
                /\ k \in DOMAIN objs[i]
                /\ \A j \in DOMAIN objs : j > i => k \notin DOMAIN objs[j]][k]]

----------------------------------------------------------------------------
(* C2 *)

\* the step changes the raw value or the validatorStore of leaf "a"
changesRawValueOrValidators ==
    \/ store'["a"].rawValue # store["a"].rawValue
    \/ store'["a"].validatorStore # store["a"].validatorStore

\* after the step the default-source partition is the result of the
\* composed validator on the raw value, and absent when that is null
defaultPartitionIsResult ==
    partitionOf(store', "a", DEFAULT_SOURCE) = validatorResult(store', controls', "a")

\* the leaf created with value "" and the validator "required"
requiredLeaf ==
    createFormControl(Fresh, NoControls, "a", "",
                      [NoOptions EXCEPT !.validators = InFn("required")])

\* after construction errors = {isMissing: true} and isValid is false; after
\* setValue("x") errors = null and isValid is true
requiredLeafScenario ==
    /\ errors(requiredLeaf, NoControls, "a") = Some([isMissing |-> "true"])
    /\ ~isValid(requiredLeaf, NoControls, "a")
    /\ (store = requiredLeaf /\ store' = setValueAndReact(store, controls, "a", "x"))
       => /\ errors(store', controls', "a") = Null
          /\ isValid(store', controls', "a")

\* C2 as stated: after every setValue or setValidators call that changes the
\* raw value or the validatorStore of a control, the default-source
\* partition of errorsStore equals the result of the composed validator on
\* the current raw value and is absent when that result is null; the leaf
\* created with "" and the validator "required" has errors {isMissing: true}
\* and is invalid, and after setValue("x") has errors null and is valid.
C2_AsStated ==
    [][ /\ requiredLeafScenario
        /\ changesRawValueOrValidators => defaultPartitionIsResult ]_vars

\* C2 amended: the same after every setValidators call that changes the
\* validatorStore, and after every setValue call that changes the raw value
\* of a control whose validatorStore is not empty.  (With an empty
\* validatorStore the reaction does not read the raw value, so setValue does
\* not run it and the default-source partition stays as it was.)
C2_Revalidation ==
    [][ /\ requiredLeafScenario
        /\ ( /\ changesRawValueOrValidators
             /\ \/ store'["a"].validatorStore # store["a"].validatorStore
                \/ hasValidator(store', "a") )
           => defaultPartitionIsResult ]_vars

\* setValidators(isX, {source: "S1"}) and setValue("x") were called
C2_Witness ==
    /\ nops = 2
    /\ store["a"].validatorStore = << <<"S1", Fn("isX")>> >>
    /\ store["a"].rawValue = "x"
    /\ store["a"].errorsStore = << <<DEFAULT_SOURCE, [x |-> "1"]>> >>

----------------------------------------------------------------------------
(* C3 *)

\* C3: setErrors(E, {source: S}) and setErrors(null, {source: S}) change only
\* partition S of errorsStore: the partition of every other source is
\* unchanged, partition S is E, or absent for null; after {x:1} at S1 and
\* {y:2} at S2 errors is {x:1, y:2}, clearing S1 leaves {y:2}, and clearing
\* the last partition gives errors null and an empty errorsStore.
C3_SetErrorsFrame ==
    [][ \A input \in {i \in SetErrorsInputs : i.t # "map"}, S \in Sources :
          (nops' = nops + 1 /\ store' = setErrors(store, "a", input, S)) =>
            /\ \A T \in Sources \ {S} :
                  partitionOf(store', "a", T) = partitionOf(store, "a", T)
            /\ partitionOf(store', "a", S) =
                  IF input.t = "null" \/ input.obj = EmptyObj THEN Null
                  ELSE Some(input.obj)
            /\ (/\ store["a"].errorsStore = << <<"S1", [x |-> "1"]>> >>
                /\ input = InObj([y |-> "2"]) /\ S = "S2")
               => selfErrors(store', "a") = Some([x |-> "1", y |-> "2"])
            /\ (/\ store["a"].errorsStore =
                      << <<"S1", [x |-> "1"]>>, <<"S2", [y |-> "2"]>> >>
                /\ input = InNull /\ S = "S1")
               => selfErrors(store', "a") = Some([y |-> "2"])
            /\ (MapKeys(store["a"].errorsStore) \subseteq {S} /\ input = InNull)
               => /\ store'["a"].errorsStore = <<>>
                  /\ selfErrors(store', "a") = Null ]_vars

\* {x:1} was set at S1, {y:2} at S2, and S1 was cleared
C3_Witness ==
    /\ nops = 3
    /\ store["a"].errorsStore = << <<"S2", [y |-> "2"]>> >>
    /\ selfErrors(store, "a") = Some([y |-> "2"])

----------------------------------------------------------------------------
(* C4 *)

----------------------------------------------------------------------------
(* C5 *)

\* C5: for every container, each child.X is "some applicable child has X"
\* and each children.areX is "every applicable child has X", the applicable
\* children being the enabled ones, and all of them for child.isDisabled and
\* children.areDisabled; on an empty applicable set children.areValid is
\* true and every other aggregate is false.
C5_Aggregates ==
    \A c \in Containers :
        LET all == childIds(controls, c)
            en == enabledChildIds(store, controls, c)
        IN
        /\ childIsValidMemo(store, controls, c) = (\E k \in en : isValid(store, controls, k))
        /\ childIsDisabledMemo(store, controls, c) = (\E k \in all : isDisabled(store, controls, k))
        /\ childIsReadonlyMemo(store, controls, c) = (\E k \in en : isReadonly(store, controls, k))
        /\ childIsRequiredMemo(store, controls, c) = (\E k \in en : isRequired(store, controls, k))
        /\ childIsPendingMemo(store, controls, c) = (\E k \in en : isPending(store, controls, k))
        /\ childIsTouchedMemo(store, controls, c) = (\E k \in en : isTouched(store, controls, k))
        /\ childIsDirtyMemo(store, controls, c) = (\E k \in en : isDirty(store, controls, k))
        /\ childIsSubmittedMemo(store, controls, c) = (\E k \in en : isSubmitted(store, controls, k))
        /\ childrenAreValidMemo(store, controls, c) = (\A k \in en : isValid(store, controls, k))
        /\ childrenAreDisabledMemo(store, controls, c)
              = (all # {} /\ \A k \in all : isDisabled(store, controls, k))
        /\ childrenAreReadonlyMemo(store, controls, c)
              = (en # {} /\ \A k \in en : isReadonly(store, controls, k))
        /\ childrenAreRequiredMemo(store, controls, c)
              = (en # {} /\ \A k \in en : isRequired(store, controls, k))
        /\ childrenArePendingMemo(store, controls, c)
              = (en # {} /\ \A k \in en : isPending(store, controls, k))
        /\ childrenAreTouchedMemo(store, controls, c)
              = (en # {} /\ \A k \in en : isTouched(store, controls, k))
        /\ childrenAreDirtyMemo(store, controls, c)
              = (en # {} /\ \A k \in en : isDirty(store, controls, k))
        /\ childrenAreSubmittedMemo(store, controls, c)
              = (en # {} /\ \A k \in en : isSubmitted(store, controls, k))
        /\ all = {} =>
              /\ ~childIsDisabledMemo(store, controls, c)
              /\ ~childrenAreDisabledMemo(store, controls, c)
        /\ en = {} =>
              /\ childrenAreValidMemo(store, controls, c)
              /\ ~childrenAreReadonlyMemo(store, controls, c)
              /\ ~childrenAreRequiredMemo(store, controls, c)
              /\ ~childrenArePendingMemo(store, controls, c)
              /\ ~childrenAreTouchedMemo(store, controls, c)
              /\ ~childrenAreDirtyMemo(store, controls, c)
              /\ ~childrenAreSubmittedMemo(store, controls, c)
              /\ ~childIsValidMemo(store, controls, c)
              /\ ~childIsReadonlyMemo(store, controls, c)
              /\ ~childIsRequiredMemo(store, controls, c)
              /\ ~childIsPendingMemo(store, controls, c)
              /\ ~childIsTouchedMemo(store, controls, c)
              /\ ~childIsDirtyMemo(store, controls, c)
              /\ ~childIsSubmittedMemo(store, controls, c)

\* leaf a was created with all options, disabled and touched, and leaf b
\* was disabled: no child of the group is applicable to children.areTouched
\* or child.isTouched, while the array has no child at all
C5_Witness ==
    /\ controls = FlatShape /\ nops >= 1
    /\ store["a"].isDisabled /\ store["a"].isTouched /\ store["b"].isDisabled
    /\ childrenAreDisabledMemo(store, controls, "g")
    /\ childIsDisabledMemo(store, controls, "g")
    /\ childrenAreValidMemo(store, controls, "g")
    /\ ~childrenAreTouchedMemo(store, controls, "g")
    /\ ~childIsTouchedMemo(store, controls, "g")
    /\ size(controls, "r") = 0
    /\ childrenAreValidMemo(store, controls, "r")
    /\ ~childrenAreDisabledMemo(store, controls, "r")

----------------------------------------------------------------------------
(* C6 *)

\* C6: the status of every control is DISABLED if it is disabled, otherwise
\* PENDING if it is pending, otherwise INVALID if it is not valid, otherwise
\* VALID; a leaf created disabled, pending and with errors has status
\* DISABLED while isValid is false.
C6_StatusPriority ==
    /\ \A id \in Ids :
          LET d == isDisabled(store, controls, id)
              p == isPending(store, controls, id)
              v == isValid(store, controls, id)
              st == status(store, controls, id)
          IN  /\ st \in {"DISABLED", "PENDING", "INVALID", "VALID"}
              /\ (st = "DISABLED") = d
              /\ (st = "PENDING") = (~d /\ p)
              /\ (st = "INVALID") = (~d /\ ~p /\ ~v)
              /\ (st = "VALID") = (~d /\ ~p /\ v)
    /\ \A v \in Values :
          LET S == createFormControl(Fresh, controls, "a", v, AllOptions)
          IN  status(S, controls, "a") = "DISABLED" /\ ~isValid(S, controls, "a")

\* leaf a was created with all options; leaf b was marked pending and given
\* errors
C6_Witness ==
    /\ controls = FlatShape /\ nops = 2
    /\ store["a"] = createFormControl(Fresh, controls, "a", "", AllOptions)["a"]
    /\ status(store, controls, "a") = "DISABLED"
    /\ ~isValid(store, controls, "a")
    /\ store["b"].pendingStore = {DEFAULT_SOURCE}
    /\ store["b"].errorsStore # <<>>
    /\ status(store, controls, "b") = "PENDING"

----------------------------------------------------------------------------
(* C7 *)

\* C7: for every control, self.isValid is true exactly when self.errors is
\* null and self.isPending is false; a control that is valid has no errors
\* of its own and is not pending.
C7_SelfIsValid ==
    \A id \in Ids :
        /\ selfIsValid(store, id)
              = (store[id].errorsStore = <<>> /\ store[id].pendingStore = {})
        /\ selfIsValid(store, id)
              = (selfErrors(store, id).isNull /\ ~selfIsPending(store, id))
        /\ isValid(store, controls, id)
              => (selfErrors(store, id).isNull /\ ~selfIsPending(store, id))

\* leaf b was marked pending and has no errors: it is not valid
C7_Witness ==
    /\ nops >= 1
    /\ store["b"].pendingStore = {DEFAULT_SOURCE}
    /\ store["b"].errorsStore = <<>>
    /\ ~selfIsValid(store, "b")
    /\ ~isValid(store, controls, "b")

----------------------------------------------------------------------------
(* C8 *)

\* the errors of the enabled children of container c, in the order of the
\* children
enabledChildErrors(c) ==
    LET en == SelectSeq(allControlsMemo(controls, c),
                        LAMBDA k : ~isDisabled(store, controls, k))
    IN  [i \in DOMAIN en |-> errors(store, controls, en[i])]

\* C8: for every container, children.errors is the shallow merge of the
\* errors of the enabled children, and it is null whenever the errors of
\* every enabled child is null.
C8_ChildrenErrors ==
    \A c \in Containers :
        LET es == enabledChildErrors(c) IN
        IF \A i \in DOMAIN es : es[i].isNull
        THEN childrenErrorsMemo(store, controls, c) = Null
        ELSE childrenErrorsMemo(store, controls, c)
                = Some(mergeLast([i \in DOMAIN es |-> es[i].obj]))

----------------------------------------------------------------------------
(* C9 *)

\* C9: for every container, errors is { ...children.errors, ...self.errors },
\* the errors of the container itself overriding those of the children on a
\* shared key, and null when children.errors and self.errors are both null;
\* setErrors on the container changes its self.errors only, never the errors
\* of a child.
C9_ContainerErrors ==
    /\ [](\A c \in Containers :
            LET ch == childrenErrorsMemo(store, controls, c)
                se == selfErrors(store, c)
            IN  errors(store, controls, c) =
                    IF ch.isNull /\ se.isNull THEN Null
                    ELSE Some(mergeLast(<<ch.obj, se.obj>>)))
    /\ [][ \A c \in Containers, input \in TreeErrorInputs :
             (nops' = nops + 1 /\ store' = setErrors(store, c, input, DEFAULT_SOURCE)) =>
                /\ \A k \in Ids \ {c} : store'[k] = store[k]
                /\ \A k \in descendants(controls, c) :
                      errors(store', controls', k) = errors(store, controls, k) ]_vars

\* leaf a has the errors {x: 1} and the group itself {x: 2, y: 2}: the
\* errors of the group have x from the group
C9_Witness ==
    /\ controls = FlatShape /\ nops = 2
    /\ selfErrors(store, "a") = Some([x |-> "1"])
    /\ selfErrors(store, "g") = Some([x |-> "2", y |-> "2"])
    /\ childrenErrorsMemo(store, controls, "g") = Some([x |-> "1"])
    /\ errors(store, controls, "g") = Some([x |-> "2", y |-> "2"])

----------------------------------------------------------------------------
(* C10 *)

\* C10: self.errors is the shallow merge of the error objects of all
\* partitions of errorsStore in the iteration order of the store, a later
\* partition overriding an earlier one on a shared key, and it is null if
\* every partition is empty or absent; after any sequence of setErrors and
\* patchErrors calls with an error object, null or a partitioned map.
C10_SelfErrors ==
    LET es == store["a"].errorsStore IN
    IF \A i \in DOMAIN es : es[i][2] = EmptyObj
    THEN selfErrors(store, "a") = Null
    ELSE selfErrors(store, "a") = Some(mergeLast([i \in DOMAIN es |-> es[i][2]]))

----------------------------------------------------------------------------
(* C11 *)

\* C11: the isTouched of a FormGroup is self.isTouched or
\* children.areTouched: with two untouched children and an untouched group,
\* after only the first child is marked touched the group is not touched
\* while child.isTouched is true, and after the second is marked too the
\* group is touched.
C11_IsTouchedAllChildren ==
    /\ \A c \in Groups :
          isTouched(store, controls, c)
              = (store[c].isTouched \/ childrenAreTouchedMemo(store, controls, c))
    /\ (/\ controls = FlatShape
        /\ ~store["g"].isTouched
        /\ ~store["a"].isDisabled /\ ~store["b"].isDisabled
        /\ store["a"].isTouched /\ ~store["b"].isTouched)
       => /\ ~isTouched(store, controls, "g")
          /\ childIsTouchedMemo(store, controls, "g")

----------------------------------------------------------------------------
(* C12 *)

\* C12: markPending(true|false, {source: S}) adds or removes only S in
\* pendingStore, markPending(set) replaces pendingStore with the set, and
\* self.isPending is true exactly when pendingStore is not empty; a control
\* pending by S1 and S2 is still pending after markPending(false, S1).
C12_MarkPending ==
    /\ [](selfIsPending(store, "a") = (store["a"].pendingStore # {}))
    /\ [][ /\ \A input \in BOOLEAN, S \in Sources :
                (nops' = nops + 1 /\ store' = markPending(store, "a", input, S)) =>
                   /\ store'["a"].pendingStore =
                         IF input THEN store["a"].pendingStore \cup {S}
                         ELSE store["a"].pendingStore \ {S}
                   /\ store'["a"] = [store["a"] EXCEPT
                                       !.pendingStore = store'["a"].pendingStore]
                   /\ (store["a"].pendingStore = {"S1", "S2"} /\ ~input /\ S = "S1")
                      => /\ selfIsPending(store', "a")
                         /\ store'["a"].pendingStore = {"S2"}
           /\ \A input \in SUBSET Sources :
                (nops' = nops + 1 /\ store' = markPendingSet(store, "a", input)) =>
                   store'["a"].pendingStore = input ]_vars

\* S1 and S2 were marked pending and S1 was cleared: S2 keeps the control
\* pending
C12_Witness ==
    /\ nops = 3
    /\ store["a"].pendingStore = {"S2"}
    /\ selfIsPending(store, "a")
    /\ ~selfIsValid(store, "a")
    /\ store["a"].errorsStore = <<>>

----------------------------------------------------------------------------
(* C13 *)

\* C13: patchErrors(E, {source: S}) merges the keys of E into partition S,
\* keeping the other keys of S and all other partitions, and deletes from S
\* every key that E maps to null; patching {x: 1} and then {x: null} leaves
\* S without x, and errorsStore without S if that empties the partition.
C13_PatchErrors ==
    [][ \A o \in PatchObjects, S \in Sources :
          (nops' = nops + 1 /\ store' = patchErrors(store, "a", InObj(o), S)) =>
            LET old == partitionOf(store, "a", S).obj
                dropped == {k \in DOMAIN o : o[k] = NullVal}
                keys == ((DOMAIN old) \cup (DOMAIN o)) \ dropped
            IN
            /\ \A T \in Sources \ {S} :
                  partitionOf(store', "a", T) = partitionOf(store, "a", T)
            /\ partitionOf(store', "a", S).obj =
                  [k \in keys |-> IF k \in DOMAIN o THEN o[k] ELSE old[k]]
            /\ keys # {} => MapHas(store'["a"].errorsStore, S)
            /\ (keys = {} /\ o # EmptyObj) => ~MapHas(store'["a"].errorsStore, S)
            /\ (old = [x |-> "1"] /\ o = [x |-> NullVal])
               => ~MapHas(store'["a"].errorsStore, S) ]_vars

\* {y: 2} was set at S1 and {x: 1} was patched into it
C13_Witness ==
    /\ nops = 2
    /\ store["a"].errorsStore = << <<"S1", [x |-> "1", y |-> "2"]>> >>

----------------------------------------------------------------------------
(* C14 *)

\* C14: the automatic re-validation changes at most the default-source
\* partition of errorsStore: over every setValue and setValidators call the
\* partition of every other source is the same before and after, and the
\* default-source partition is removed when the composed validator returns
\* null.
C14_RevalidationFrame ==
    [][ changesRawValueOrValidators =>
          /\ \A T \in Sources \ {DEFAULT_SOURCE} :
                partitionOf(store', "a", T) = partitionOf(store, "a", T)
          /\ ( /\ \/ store'["a"].validatorStore # store["a"].validatorStore
                  \/ hasValidator(store', "a")
               /\ validatorResult(store', controls', "a").isNull )
             => ~MapHas(store'["a"].errorsStore, DEFAULT_SOURCE) ]_vars

\* the leaf had {isMissing: true} from its validator and {x: 1} at S1;
\* setValue("x") removed the first and kept the second
C14_Witness ==
    /\ nops = 2
    /\ store["a"].rawValue = "x"
    /\ store["a"].validatorStore = << <<DEFAULT_SOURCE, Fn("required")>> >>
    /\ store["a"].errorsStore = << <<"S1", [x |-> "1"]>> >>

----------------------------------------------------------------------------
(* C15 *)

\* the options of the "all options" test that bear on errors
errorsValidatorsPending ==
    [NoOptions EXCEPT !.errors = InObj([error |-> "true"]),
                      !.validators = InFn("never"), !.pending = TRUE]

\* C15: construction applies disabled, touched, dirty, readonly, submitted,
\* required, pending, validators, pending, errors, the errors last, so that
\* a control created with validators and initial errors E has every key of
\* E in errors after construction; with {errors: {error: true}, validators:
\* v => null, pending: true} errors is {error: true}, errorsStore is
\* {DEFAULT_SOURCE: {error: true}} and pendingStore is {DEFAULT_SOURCE}.
C15_ConstructionOrder ==
    /\ \A v \in Values, o \in LeafOptions \cup {errorsValidatorsPending} :
          LET S == createFormControl(Fresh, NoControls, "a", v, o)
              validated == callValidator(composeValidators(o.validators).obj, "leaf", v)
              result == IF o.validators.t = "null" THEN Null ELSE validated
          IN
          /\ S["a"].isDisabled = o.disabled
          /\ S["a"].pendingStore = IF o.pending THEN {DEFAULT_SOURCE} ELSE {}
          /\ hasValidator(S, "a") = (o.validators.t # "null")
          /\ o.errors.t = "obj" =>
                /\ ~selfErrors(S, "a").isNull
                /\ \A k \in DOMAIN o.errors.obj :
                      /\ k \in DOMAIN selfErrors(S, "a").obj
                      /\ selfErrors(S, "a").obj[k] = o.errors.obj[k]
                /\ partitionOf(S, "a", DEFAULT_SOURCE)
                      = Some(mergeLast(<<result.obj, o.errors.obj>>))
          /\ o.errors.t = "null" => partitionOf(S, "a", DEFAULT_SOURCE) = result
    /\ LET S == createFormControl(Fresh, NoControls, "a", "", errorsValidatorsPending)
       IN  /\ selfErrors(S, "a") = Some([error |-> "true"])
           /\ S["a"].errorsStore = << <<DEFAULT_SOURCE, [error |-> "true"]>> >>
           /\ S["a"].pendingStore = {DEFAULT_SOURCE}
    /\ nops = 0 =>
          \E v \in Values, o \in LeafOptions :
              /\ store = createFormControl(Fresh, NoControls, "a", v, o)
              /\ o.errors.t = "obj" =>
                    \A k \in DOMAIN o.errors.obj : k \in DOMAIN selfErrors(store, "a").obj

\* a control just created with the value "x", the validator "required",
\* which returns null, pending, and the initial errors {error: true}
C15_Witness ==
    /\ nops = 0
    /\ thrown = NoError
    /\ store["a"].rawValue = "x"
    /\ store["a"].validatorStore = << <<DEFAULT_SOURCE, Fn("required")>> >>
    /\ store["a"].pendingStore = {DEFAULT_SOURCE}
    /\ store["a"].errorsStore = << <<DEFAULT_SOURCE, [error |-> "true"]>> >>

----------------------------------------------------------------------------
(* C16 *)

\* entries has exactly one entry for each child of container id, and the
\* entry of a child that is a container has one entry for each of its
\* children
RECURSIVE oneEntryPerChild(_, _, _)
oneEntryPerChild(C, id, entries) ==
    /\ Len(entries) = size(C, id)
    /\ \A i, j \in DOMAIN entries : entries[i].key = entries[j].key => i = j
    /\ \A i \in DOMAIN entries :
          LET c == controlAt(C, id, entries[i].key) IN
          /\ c # NoControl
          /\ IF c \in Leaves THEN ~entries[i].isSub
             ELSE entries[i].isSub /\ oneEntryPerChild(C, c, entries[i].sub)

\* the value v whose Object.entries is entries, for container id
RECURSIVE valueOfEntries(_, _, _)
valueOfEntries(C, id, entries) ==
    LET val(e) == IF e.isSub THEN valueOfEntries(C, controlAt(C, id, e.key), e.sub)
                  ELSE e.leaf
    IN  IF id \in Arrays
        THEN [i \in 1..Len(entries) |->
                val(entries[CHOOSE j \in DOMAIN entries : indexOfKey(entries[j].key) = i])]
        ELSE fromEntries([i \in DOMAIN entries |-> <<entries[i].key, val(entries[i])>>])

\* the step is the call setValue(v) of container id, entries being
\* Object.entries(v)
isSetValueStep(id, entries) ==
    LET r == containerSetValue(store, controls, id, entries) IN
    /\ nops' = nops + 1
    /\ controls' = controls
    /\ store' = react(store, controls, r.store, controls)
    /\ thrown' = r.thrown

\* the number of times leaf is reached from control id through the child
\* collections, counted from child i of id on
RECURSIVE occurrences(_, _, _, _)
occurrences(C, id, leaf, i) ==
    IF id \in Leaves THEN (IF id = leaf THEN 1 ELSE 0)
    ELSE IF i > size(C, id) THEN 0
    ELSE occurrences(C, allControlsMemo(C, id)[i], leaf, 1) + occurrences(C, id, leaf, i + 1)

\* no control is a child of container id, at any depth, under two keys
distinctChildren(C, id) == \A leaf \in Leaves : occurrences(C, id, leaf, 1) <= 1

----------------------------------------------------------------------------
(* C17 *)

\* every key of entries is a child of container id, the entry of a leaf is a
\* raw value and the entry of a container has only keys of its children
RECURSIVE allKeysKnown(_, _, _)
allKeysKnown(C, id, entries) ==
    \A i \in DOMAIN entries :
        LET c == controlAt(C, id, entries[i].key) IN
        /\ c # NoControl
        /\ IF c \in Leaves THEN ~entries[i].isSub
           ELSE entries[i].isSub /\ allKeysKnown(C, c, entries[i].sub)

\* the pairs <<leaf, raw value>> that entries names, at any depth
RECURSIVE named(_, _, _)
named(C, id, entries) ==
    UNION { LET c == controlAt(C, id, entries[i].key) IN
            IF c = NoControl THEN {}
            ELSE IF c \in Leaves THEN {<<c, entries[i].leaf>>}
            ELSE named(C, c, entries[i].sub) : i \in DOMAIN entries }

\* the step is the call patchValue(p) of container id, entries being
\* Object.entries(p)
isPatchValueStep(id, entries) ==
    LET r == containerPatchValue(store, controls, id, entries) IN
    /\ nops' = nops + 1
    /\ controls' = controls
    /\ store' = react(store, controls, r.store, controls)
    /\ thrown' = r.thrown

\* C17: patchValue(p) of a container throws when a key of p, at any depth,
\* is not a child; otherwise it throws nothing and every leaf that p names,
\* directly or through the entry of a child that is a container, has the raw
\* value of an entry that names it (of its one entry when the children are
\* distinct controls).  In both cases a control that p does not name keeps
\* all it had, and nothing but raw values is written.
C17_PatchValue ==
    [][ \A id \in {"g", "r"} : \A entries \in ValueInputs(id) :
          isPatchValueStep(id, entries) =>
             LET ns == named(controls, id, entries) IN
             /\ ~allKeysKnown(controls, id, entries) => thrown' = PatchValueKeyError
             /\ allKeysKnown(controls, id, entries) =>
                   /\ thrown' = NoError
                   /\ \A n \in ns : \E m \in ns :
                         m[1] = n[1] /\ store'[n[1]].rawValue = m[2]
                   /\ distinctChildren(controls, id) =>
                         \A n \in ns : store'[n[1]].rawValue = n[2]
             /\ \A k \in Ids :
                   /\ store'[k] = [store[k] EXCEPT !.rawValue = store'[k].rawValue]
                   /\ k \notin {n[1] : n \in ns} => store'[k] = store[k] ]_vars

\* patchValue({list: {1: "2"}}) was called on g = {firstName: a, list: [b, c]}
\* with c disabled: c has the value "2", a and b have theirs
C17_Witness ==
    /\ controls = ListShape /\ nops = 2 /\ thrown = NoError
    /\ store["c"].isDisabled
    /\ rawValue(store, controls, "g") = [firstName |-> "1", list |-> <<"2", "2">>]
    /\ value(store, controls, "g") = [firstName |-> "1", list |-> <<"2">>]

----------------------------------------------------------------------------
(* C18 *)

\* the step is the call removeControl(arg) of container id
isRemoveControlStep(id, arg) ==
    /\ nops' = nops + 1
    /\ controls' = removeControl(controls, id, arg)
    /\ store' = react(store, controls, store, controls')
    /\ thrown' = NoError

\* the children of container id without the one under key
withoutKey(C, id, key) ==
    IF id \in Arrays
    THEN [i \in 1..(Len(C[id]) - 1) |->
            IF i < indexOfKey(key) THEN C[id][i] ELSE C[id][i + 1]]
    ELSE SelectSeq(C[id], LAMBDA e : e[1] # key)

\* C18: removeControl with a key of an object container, or with an index of
\* an array container, removes the child under that key or index and leaves
\* the other children; on g = {firstName, lastName} removeControl("firstName")
\* leaves controls and value with lastName only.
C18_RemoveControlByKey ==
    [][ /\ \A id \in {"g", "r"}, key \in {"firstName", "0"} :
             (/\ isRemoveControlStep(id, ByKey(key))
              /\ controlAt(controls, id, key) # NoControl) =>
                 controls'[id] = withoutKey(controls, id, key)
        /\ (/\ isRemoveControlStep("g", ByKey("firstName"))
            /\ controls = NameShape) =>
               /\ controls'["g"] = << <<"lastName", "b">> >>
               /\ DOMAIN value(store', controls', "g") = {"lastName"} ]_vars

----------------------------------------------------------------------------
(* C19 *)

\* the step is a call on the FormArray r that gives it the children cs
isArrayStep(cs) ==
    /\ nops' = nops + 1
    /\ controls' = [controls EXCEPT !["r"] = cs]
    /\ store' = react(store, controls, store, controls')
    /\ thrown' = NoError

\* the children of r after push(c), after setControl(i, null) and after
\* removeControl(c)
afterPush(c) == push(controls, "r", c)["r"]
afterSetNull(i) == arraySetControl(controls, "r", i, NoControl)["r"]
afterRemove(c) == removeControl(controls, "r", ByControl(c))["r"]

\* index i is spliced out of the children of r: the size is one less, the
\* children before i keep their indices, the later ones are one index down
splicedOut(i) ==
    /\ size(controls', "r") = size(controls, "r") - 1
    /\ \A j \in DOMAIN controls'["r"] :
          controls'["r"][j] = IF j < i THEN controls["r"][j] ELSE controls["r"][j + 1]

\* push(c) stores c at index size and the children keep their indices
pushAppends ==
    \A c \in Leaves : isArrayStep(afterPush(c)) =>
        /\ size(controls', "r") = size(controls, "r") + 1
        /\ controls'["r"][size(controls, "r") + 1] = c
        /\ \A j \in DOMAIN controls["r"] : controls'["r"][j] = controls["r"][j]

\* setControl(i, null) splices index i out
setNullSplices ==
    \A i \in DOMAIN controls["r"] : isArrayStep(afterSetNull(i)) => splicedOut(i)

\* from ["1"], push("2") gives size 2 and rawValue ["1", "2"]; deleting index
\* 0 then gives size 1 and rawValue ["2"]
pushThenDelete ==
    /\ (/\ controls["r"] = <<"c">> /\ rawValue(store, controls, "r") = <<"1">>
        /\ store["b"].rawValue = "2"
        /\ isArrayStep(afterPush("b"))) =>
           /\ size(controls', "r") = 2
           /\ rawValue(store', controls', "r") = <<"1", "2">>
    /\ (/\ controls["r"] = <<"c", "b">> /\ rawValue(store, controls, "r") = <<"1", "2">>
        /\ (isArrayStep(afterSetNull(1)) \/ isArrayStep(afterRemove("c")))) =>
           /\ size(controls', "r") = 1
           /\ rawValue(store', controls', "r") = <<"2">>

----------------------------------------------------------------------------
(* C20 *)

\* the keys of an object container, the indices of an array container
keysOf(C, c) ==
    {allControlEntriesMemo(C, c)[i][1] : i \in DOMAIN allControlEntriesMemo(C, c)}

\* the keys or indices of the children of c that are not disabled
enabledKeysOf(S, C, c) ==
    {allControlEntriesMemo(C, c)[i][1] :
        i \in {j \in DOMAIN allControlEntriesMemo(C, c) :
                 ~isDisabled(S, C, allControlEntriesMemo(C, c)[j][2])}}

\* C20 as the claim states it: for every container, object or array, the
\* keys or indices of rawValue are those of controls, and the keys or indices
\* of value are those of the controls that are not disabled.
C20_AsStated ==
    \A c \in {"g", "r"} :
        /\ DOMAIN rawValue(store, controls, c) = keysOf(controls, c)
        /\ DOMAIN value(store, controls, c) = enabledKeysOf(store, controls, c)

\* C20: for every container the keys or indices of rawValue are those of
\* controls; the keys of the value of an object container are the keys of
\* the controls that are not disabled; the value of an array container is
\* the sequence of the values of the controls that are not disabled, in the
\* order of their indices, so that its indices are 0 .. n-1 for n such
\* controls.
C20_ValueKeys ==
    /\ \A c \in {"g", "r"} :
          DOMAIN rawValue(store, controls, c) = keysOf(controls, c)
    /\ DOMAIN value(store, controls, "g") = enabledKeysOf(store, controls, "g")
    /\ LET en == enabledKeysOf(store, controls, "r")
           nth(j) == CHOOSE i \in en : Cardinality({k \in en : k <= i}) = j
       IN  /\ DOMAIN value(store, controls, "r") = 1..Cardinality(en)
           /\ \A j \in 1..Cardinality(en) :
                 value(store, controls, "r")[j] = value(store, controls, controls["r"][nth(j)])

\* r = [b, c] with b disabled had a pushed: the value is that of c and a, at
\* the indices 0 and 1, while the controls that are not disabled are at 1
\* and 2
C20_Witness ==
    /\ nops = 2 /\ thrown = NoError
    /\ controls["r"] = <<"b", "c", "a">>
    /\ store["b"].isDisabled /\ ~store["c"].isDisabled /\ ~store["a"].isDisabled
    /\ rawValue(store, controls, "r") = <<"2", "1", "1">>
    /\ value(store, controls, "r") = <<"1", "1">>

----------------------------------------------------------------------------
(* C21 *)

\* the step is the call setControls(cs) of container id
isSetControlsStep(id, cs) ==
    /\ nops' = nops + 1
    /\ controls' = setControls(controls, id, cs)
    /\ store' = react(store, controls, store, controls')
    /\ thrown' = NoError

\* C21: setControls(cs) replaces the child collection: afterwards controls
\* has exactly the keys or indices of cs, each with the control of cs, and
\* size, rawValue and value are those of cs; the call changes nothing when
\* cs is equal to the current collection.
C21_SetControls ==
    [][ \A id \in {"g", "r"} : \A cs \in ControlsInputsOf(id) :
          isSetControlsStep(id, cs) =>
             LET C1 == [controls EXCEPT ![id] = cs] IN
             /\ keysOf(controls', id) = keysOf(C1, id)
             /\ \A k \in keysOf(C1, id) :
                   \A i \in DOMAIN allControlEntriesMemo(C1, id),
                      j \in DOMAIN allControlEntriesMemo(controls', id) :
                         (/\ allControlEntriesMemo(C1, id)[i][1] = k
                          /\ allControlEntriesMemo(controls', id)[j][1] = k) =>
                            allControlEntriesMemo(controls', id)[j][2]
                               = allControlEntriesMemo(C1, id)[i][2]
             /\ size(controls', id) = size(C1, id)
             /\ DOMAIN rawValue(store', controls', id) = DOMAIN rawValue(store, C1, id)
             /\ DOMAIN value(store', controls', id) = DOMAIN value(store, C1, id)
             /\ isEqualControls(id, controls[id], cs) => controls' = controls ]_vars

----------------------------------------------------------------------------
(* C22 *)

\* the step is the call setControl(key, c) of the FormGroup g
isGroupSetControlStep(key, c) ==
    /\ nops' = nops + 1
    /\ controls' = groupSetControl(controls, "g", key, c)
    /\ store' = react(store, controls, store, controls')
    /\ thrown' = NoError

\* C22: on an object container setControl(k, c) adds or replaces the entry k
\* and setControl(k, null) deletes it, changing nothing when k is absent;
\* every other entry is unchanged, and size, rawValue and value are those of
\* the new collection when the call returns.
C22_GroupSetControl ==
    [][ \A key \in GroupKeys, c \in Leaves \cup {NoControl} :
          isGroupSetControlStep(key, c) =>
             /\ controlAt(controls', "g", key) = c
             /\ keysOf(controls', "g") =
                   IF c = NoControl THEN keysOf(controls, "g") \ {key}
                   ELSE keysOf(controls, "g") \cup {key}
             /\ (c = NoControl /\ key \notin keysOf(controls, "g")) => controls' = controls
             /\ \A k \in (keysOf(controls, "g") \cup keysOf(controls', "g")) \ {key} :
                   controlAt(controls', "g", k) = controlAt(controls, "g", k)
             /\ \A id \in Containers \ {"g"} : controls'[id] = controls[id]
             /\ size(controls', "g") = Cardinality(keysOf(controls', "g"))
             /\ DOMAIN rawValue(store', controls', "g") = keysOf(controls', "g")
             /\ \A k \in keysOf(controls', "g") :
                   rawValue(store', controls', "g")[k]
                      = rawValue(store', controls', controlAt(controls', "g", k))
             /\ DOMAIN value(store', controls', "g") = enabledKeysOf(store', controls', "g")
             /\ \A k \in enabledKeysOf(store', controls', "g") :
                   value(store', controls', "g")[k]
                      = value(store', controls', controlAt(controls', "g", k)) ]_vars

\* g = {firstName: a, lastName: b} after setControl("middleName", c) and
\* setControl("firstName", null)
C22_Witness ==
    /\ nops = 2 /\ thrown = NoError
    /\ controls["g"] = << <<"lastName", "b">>, <<"middleName", "c">> >>
    /\ size(controls, "g") = 2
    /\ rawValue(store, controls, "g") = [lastName |-> "2", middleName |-> "1"]
    /\ value(store, controls, "g") = [lastName |-> "2", middleName |-> "1"]

----------------------------------------------------------------------------
(* C23 *)

\* the step is the call get(...args) of container id
isGetStep(id, args) ==
    /\ nops' = nops + 1
    /\ returned' = get(controls, id, args).returned
    /\ thrown' = get(controls, id, args).thrown
    /\ UNCHANGED <<store, controls>>

\* the control reached from cur by following the keys, null if a key is not
\* a child or if a control reached before the last key is not a container
RECURSIVE follow(_, _, _)
follow(C, cur, args) ==
    IF args = <<>> THEN cur
    ELSE IF cur \notin Containers \/ controlAt(C, cur, Head(args)) = NoControl THEN NoControl
    ELSE follow(C, controlAt(C, cur, Head(args)), Tail(args))

\* the same, with undefined when it is the last key that is not a child of
\* the container reached
RECURSIVE followLast(_, _, _)
followLast(C, cur, args) ==
    IF args = <<>> THEN cur
    ELSE IF cur \notin Containers THEN NoControl
    ELSE IF controlAt(C, cur, Head(args)) = NoControl
         THEN (IF Len(args) = 1 THEN Undefined ELSE NoControl)
    ELSE followLast(C, controlAt(C, cur, Head(args)), Tail(args))

\* C23 as the claim states it: get() with no argument throws; get(k1, ...,
\* kn) returns the control reached by following the keys through the nested
\* containers, and null if a hop is missing or if a control reached before
\* the last key is not a container.
C23_AsStated ==
    [][ \A id \in {"g", "r"} : \A args \in GetInputs :
          isGetStep(id, args) =>
             IF args = <<>> THEN thrown' = MissingArguments
             ELSE thrown' = NoError /\ returned' = follow(controls, id, args) ]_vars

\* C23: get() with no argument throws; get(k1, ..., kn) returns the control
\* reached by following the keys through the nested containers; it returns
\* null if a key before the last is not a child or if a control reached
\* before the last key is not a container, and undefined if the last key is
\* not a child of the container reached; it writes nothing.
C23_Get ==
    [][ \A id \in {"g", "r"} : \A args \in GetInputs :
          isGetStep(id, args) =>
             /\ IF args = <<>> THEN thrown' = MissingArguments /\ returned' = NoReturn
                ELSE thrown' = NoError /\ returned' = followLast(controls, id, args)
             /\ (args # <<>> /\ follow(controls, id, args) # NoControl) =>
                   returned' = follow(controls, id, args)
             /\ (args # <<>> /\ follow(controls, id, args) = NoControl) =>
                   returned' \in {NoControl, Undefined} ]_vars

\* get("list", "5") on g = {firstName: a, list: [b, c]} returned undefined
C23_Witness ==
    /\ nops = 1 /\ thrown = NoError
    /\ controls = ListShape
    /\ returned = Undefined
    /\ get(controls, "g", <<"list", "5">>).returned = Undefined
    /\ get(controls, "g", <<"list", "0">>).returned = "b"
    /\ get(controls, "g", <<"firstName", "0">>).returned = NoControl

----------------------------------------------------------------------------
(* C24 *)

\* self.isX of control k
selfField(S, k, X) ==
    CASE X = "Dirty" -> S[k].isDirty
      [] X = "Disabled" -> S[k].isDisabled
      [] X = "Pending" -> selfIsPending(S, k)
      [] X = "Readonly" -> S[k].isReadonly
      [] X = "Required" -> S[k].isRequired
      [] X = "Submitted" -> S[k].isSubmitted
      [] X = "Touched" -> S[k].isTouched

\* the fields of control state c, with the field that markX writes taken
\* from d
withField(c, X, d) ==
    CASE X = "Dirty" -> [c EXCEPT !.isDirty = d.isDirty]
      [] X = "Disabled" -> [c EXCEPT !.isDisabled = d.isDisabled]
      [] X = "Pending" -> [c EXCEPT !.pendingStore = d.pendingStore]
      [] X = "Readonly" -> [c EXCEPT !.isReadonly = d.isReadonly]
      [] X = "Required" -> [c EXCEPT !.isRequired = d.isRequired]
      [] X = "Submitted" -> [c EXCEPT !.isSubmitted = d.isSubmitted]
      [] X = "Touched" -> [c EXCEPT !.isTouched = d.isTouched]

\* the step is the call children.markX(v, {deep, source}) of container id
isChildrenMarkStep(id, X, v, deep, source) ==
    /\ nops' = nops + 1
    /\ store' = react(store, controls,
                      childrenMark(store, controls, id, X, v, deep, source), controls)
    /\ UNCHANGED controls
    /\ thrown' = NoError

\* the controls children.markX of container id reaches
marked(id, deep) == IF deep THEN descendants(controls, id) ELSE childIds(controls, id)

\* C24 as the claim states it: children.markX(v) sets self.X to v on every
\* direct child and changes no other control; with deep it sets self.X to v
\* on every descendant.
C24_AsStated ==
    [][ \A id \in {"g", "r"}, X \in MarkKinds, v \in BOOLEAN, deep \in BOOLEAN :
        \A source \in markSources(X) :
          isChildrenMarkStep(id, X, v, deep, source) =>
             /\ \A k \in marked(id, deep) : selfField(store', k, X) = v
             /\ \A k \in Ids \ marked(id, deep) : store'[k] = store[k] ]_vars

\* C24: children.markX(v) calls markX(v) on every direct child and changes
\* no other control, so that self.X is v on every direct child for Touched,
\* Dirty, Readonly, Required, Disabled and Submitted; for Pending it adds the
\* source to, or removes it from, the pendingStore of every direct child, so
\* that self.isPending is v unless v is false and another source still marks
\* the child pending.  With deep the same holds for every descendant.  No
\* other field of a marked control changes.
C24_ChildrenMark ==
    [][ \A id \in {"g", "r"}, X \in MarkKinds, v \in BOOLEAN, deep \in BOOLEAN :
        \A source \in markSources(X) :
          isChildrenMarkStep(id, X, v, deep, source) =>
             /\ \A k \in marked(id, deep) :
                   /\ X # "Pending" => selfField(store', k, X) = v
                   /\ X = "Pending" =>
                         /\ store'[k].pendingStore =
                               IF v THEN store[k].pendingStore \cup {source}
                               ELSE store[k].pendingStore \ {source}
                         /\ (v \/ store[k].pendingStore \subseteq {source}) =>
                               selfField(store', k, X) = v
                   /\ store'[k] = withField(store[k], X, store'[k])
             /\ \A k \in Ids \ marked(id, deep) : store'[k] = store[k] ]_vars

\* children.markTouched(true, {deep: true}) was called on g = {firstName: a,
\* list: [b, c]}: every descendant is touched and g itself is not
C24_Witness ==
    /\ nops = 1 /\ thrown = NoError
    /\ controls = ListShape
    /\ \A k \in {"a", "r", "b", "c"} : store[k].isTouched
    /\ ~store["g"].isTouched

----------------------------------------------------------------------------
(* C25 *)

\* C25: a call of markDisabled, markTouched, markDirty, markReadonly,
\* markRequired, markSubmitted, markPending, setErrors, patchErrors,
\* setValidators or setData on a control changes the fields and stores of
\* that control only, none of a child or of a parent, and no child
\* collection; after markTouched(true) on a group whose children are not
\* touched, self.isTouched and isTouched of the group are true, while
\* child.isTouched, children.areTouched and isTouched of every child are
\* false.
C25_MutatorFrame ==
    [][ /\ \A id \in FrameIds :
             mutatorCall({id}) =>
                /\ \A k \in Ids \ {id} : store'[k] = store[k]
                /\ controls' = controls
        /\ (/\ \A k \in descendants(controls, "g") : ~store[k].isTouched
            /\ nops' = nops + 1
            /\ controls' = controls
            /\ store' = markTouched(store, "g", TRUE)) =>
               /\ store'["g"].isTouched
               /\ isTouched(store', controls', "g")
               /\ ~childIsTouchedMemo(store', controls', "g")
               /\ ~childrenAreTouchedMemo(store', controls', "g")
               /\ \A k \in childIds(controls', "g") : ~isTouched(store', controls', k) ]_vars

\* markTouched(true) was called on g = {firstName: a, list: [b, c]}
C25_Witness ==
    /\ nops = 1
    /\ controls = ListShape
    /\ store["g"].isTouched
    /\ isTouched(store, controls, "g")
    /\ \A k \in {"a", "r", "b", "c"} : ~store[k].isTouched
    /\ ~childIsTouchedMemo(store, controls, "g")

----------------------------------------------------------------------------
(* C26 *)

\* C26: after a call of markTouched, markDirty, markReadonly, markRequired,
\* markDisabled, markSubmitted, setErrors or setValidators, a second call
\* with the same arguments writes nothing, for a boolean, for an error
\* object, null or a partitioned Map, and for a validator, an array of
\* validators, null or a partitioned Map.
C26_SecondCallWritesNothing ==
    [][ \A id \in FrameIds :
          /\ \A v \in BOOLEAN :
                /\ Done(markTouched(store, id, v)) => store'[id].isTouched = v
                /\ Done(markDirty(store, id, v)) => store'[id].isDirty = v
                /\ Done(markReadonly(store, id, v)) => store'[id].isReadonly = v
                /\ Done(markRequired(store, id, v)) => store'[id].isRequired = v
                /\ Done(markDisabled(store, id, v)) => store'[id].isDisabled = v
                /\ Done(markSubmitted(store, id, v)) => store'[id].isSubmitted = v
          /\ \A input \in FrameErrorInputs :
                Done(setErrors(store, id, input, DEFAULT_SOURCE)) =>
                   setErrors(store', id, input, DEFAULT_SOURCE) = store'
          /\ \A input \in ValidatorInputs :
                Done(setValidatorsAndReact(store, controls, id, input, DEFAULT_SOURCE)) =>
                   validatorStoreIsEqual(store', id, input, DEFAULT_SOURCE) ]_vars

----------------------------------------------------------------------------
(* C27 *)

\* the validators of a store in calling order: the entries of the Map in
\* order, the elements of an array from left to right
RECURSIVE storedValidators(_)
storedValidators(fs) ==
    IF fs = <<>> THEN <<>> ELSE Head(fs).fns \o storedValidators(Tail(fs))

\* the merge of the errors the validators return for v, the last one that
\* returns a key giving its value; null when none returns an error
mergedErrors(names, v) ==
    LET returns(i) == callValidatorFn(names[i], "leaf", v)
        gives(i, k) == ~returns(i).isNull /\ k \in DOMAIN returns(i).obj
        keys == UNION {DOMAIN returns(i).obj : i \in DOMAIN names}
        last(k) == CHOOSE i \in DOMAIN names :
                      gives(i, k) /\ \A j \in DOMAIN names : gives(j, k) => j <= i
    IN  IF keys = {} THEN Null ELSE Some([k \in keys |-> returns(last(k)).obj[k]])

effectiveValidatorMerges(S) ==
    /\ validatorResult(S, NoControls, "a")
         = mergedErrors(storedValidators(MapValues(S["a"].validatorStore)), S["a"].rawValue)
    /\ hasValidator(S, "a") <=> S["a"].validatorStore # <<>>

\* C27: the effective validator of the control calls every validator of
\* validatorStore, the elements of an array from left to right, with the raw
\* value and returns the merge of the returned errors, a later one winning a
\* key, or null when none returns an error; it is null when validatorStore is
\* empty; setValidators(null, {source}) removes the entry of that source and
\* no other; the re-validation a new validatorStore triggers stores that
\* merge as the errors of the default source.
C27_EffectiveValidator ==
    [][ /\ effectiveValidatorMerges(store)
        /\ effectiveValidatorMerges(store')
        /\ \A source \in {DEFAULT_SOURCE, "S1"} :
              Done(setValidatorsAndReact(store, controls, "a", InNull, source)) =>
                 /\ MapKeys(store'["a"].validatorStore)
                      = MapKeys(store["a"].validatorStore) \ {source}
                 /\ \A k \in MapKeys(store'["a"].validatorStore) :
                       MapGet(store'["a"].validatorStore, k)
                         = MapGet(store["a"].validatorStore, k)
        /\ store'["a"].validatorStore # store["a"].validatorStore =>
              LET e == validatorResult(store', NoControls, "a")
              IN  IF e.isNull THEN ~MapHas(store'["a"].errorsStore, DEFAULT_SOURCE)
                  ELSE /\ MapHas(store'["a"].errorsStore, DEFAULT_SOURCE)
                       /\ MapGet(store'["a"].errorsStore, DEFAULT_SOURCE) = e.obj ]_vars

\* two sources hold validators, one of them an array, the validators disagree
\* on a key, and the errors of the default source are the merge
C27_Witness ==
    /\ store["a"].rawValue = "x"
    /\ store["a"].validatorStore
         = << <<DEFAULT_SOURCE, Composed(<<"isX", "always">>)>>, <<"S1", Fn("isX")>> >>
    /\ MapHas(store["a"].errorsStore, DEFAULT_SOURCE)
    /\ MapGet(store["a"].errorsStore, DEFAULT_SOURCE) = [x |-> "1"]

----------------------------------------------------------------------------
(* C28 *)

\* C28: for the leaf control value is rawValue and every outer field
\* (isDisabled, isTouched, isDirty, isReadonly, isRequired, isSubmitted,
\* isPending, errors, isValid) is the self field of the same name; a call
\* setValue(v) leaves rawValue equal to v, and writes nothing when v is
\* structurally equal to the current value.
C28_LeafValue ==
    [][ /\ value(store', controls', "a") = store'["a"].rawValue
        /\ isDisabled(store', controls', "a") = store'["a"].isDisabled
        /\ isTouched(store', controls', "a") = store'["a"].isTouched
        /\ isDirty(store', controls', "a") = store'["a"].isDirty
        /\ isReadonly(store', controls', "a") = store'["a"].isReadonly
        /\ isRequired(store', controls', "a") = store'["a"].isRequired
        /\ isSubmitted(store', controls', "a") = store'["a"].isSubmitted
        /\ isPending(store', controls', "a") = selfIsPending(store', "a")
        /\ errors(store', controls', "a") = selfErrors(store', "a")
        /\ isValid(store', controls', "a") = selfIsValid(store', "a")
        /\ \A v \in RawValues :
              Done(setRawValue(store, "a", v)) =>
                 /\ isEqualValue(store'["a"].rawValue, v)
                 /\ isEqualValue(store["a"].rawValue, v) => store' = store ]_vars

----------------------------------------------------------------------------
(* C29 *)

\* C29: setData(k, v) gives key k of data the value v and leaves every
\* other key of the control as it was; no operation on a control removes a
\* key from its data, and a key changes its value only by a setData of that
\* key.
C29_DataKeys ==
    [][ \A id \in Ids :
          /\ DOMAIN store[id].data \subseteq DOMAIN store'[id].data
          /\ \A key \in DataKeys, input \in DataValues :
                Done(setData(store, id, key, input)) =>
                   /\ key \in DOMAIN store'[id].data
                   /\ store'[id].data[key] = input
                   /\ \A k \in DOMAIN store[id].data \ {key} :
                         store'[id].data[k] = store[id].data[k]
          /\ \A k \in DOMAIN store[id].data :
                store'[id].data[k] # store[id].data[k] =>
                   store' = setData(store, id, k, store'[id].data[k]) ]_vars

\* a key given at construction is still there after another key was set
C29_Witness ==
    /\ nops = 1
    /\ store["b"].data = [k1 |-> "1", k2 |-> "2"]

----------------------------------------------------------------------------
(* C30 *)

\* the control created with value v and options o
created(v, o) == createFormControl(Fresh, NoControls, "a", v, o)

\* C30 as stated: the options are applied as one batch, so the re-validation
\* runs once, against the state in which every option has been applied
C30_AsStated ==
    \A v \in Values, o \in LeafOptions :
        nops = 0 /\ store = created(v, o) =>
           store = applyOptionsBatch([Fresh EXCEPT !["a"] = NewControl(v)],
                                     NoControls, "a", o)

\* C30: the options are applied one after the other and not as a batch: the
\* re-validation that the validators option triggers has run when disabled,
\* pending and the validators are applied and the errors are not, so that it
\* has stored the result of the validators for the raw value as the errors
\* of the default source, and the errors option is patched over that result
\* afterwards.
C30_OptionsOneByOne ==
    /\ nops = 0 => \A v \in Values, o \in LeafOptions :
          LET withoutErrors == created(v, [o EXCEPT !.errors = InNull])
          IN  /\ partitionOf(withoutErrors, "a", DEFAULT_SOURCE)
                   = validatorResult(withoutErrors, NoControls, "a")
              /\ created(v, o) =
                    IF o.errors.t = "null" THEN withoutErrors
                    ELSE patchErrors(withoutErrors, "a", o.errors, DEFAULT_SOURCE)
    /\ nops = 0 => \E v \in Values, o \in LeafOptions :
          /\ store = created(v, o)
          /\ o.errors.t # "null" =>
                store = patchErrors(created(v, [o EXCEPT !.errors = InNull]), "a",
                                    o.errors, DEFAULT_SOURCE)

\* a control just created with a validator that finds an error and with the
\* errors option: the default source holds the validator's error and the
\* errors of the option
C30_Witness ==
    /\ nops = 0
    /\ store["a"].rawValue = ""
    /\ store["a"].validatorStore = << <<DEFAULT_SOURCE, Fn("required")>> >>
    /\ store["a"].errorsStore
         = << <<DEFAULT_SOURCE, [isMissing |-> "true", error |-> "true"]>> >>

----------------------------------------------------------------------------
(* C31 *)

\* C31: a call setValue(v) of a container that throws, for a wrong number of
\* entries or for a key that is not a child, leaves the raw value of every
\* control as it was before the call; a call that does not throw leaves every
\* child with the value of its entry.
C31_SetValueAtomic ==
    [][ \A id \in {"g", "r"} : \A entries \in ValueInputs(id) :
          isSetValueStep(id, entries) =>
             /\ thrown' # NoError =>
                   \A c \in Leaves : store'[c].rawValue = store[c].rawValue
             /\ thrown' = NoError /\ distinctChildren(controls, id) =>
                   rawValue(store', controls', id) = valueOfEntries(controls, id, entries) ]_vars

----------------------------------------------------------------------------
(* C32 *)

\* the leaves below container id whose raw value the step has changed
writtenBelow(id) ==
    {c \in descendants(controls, id) \cap Leaves : store'[c].rawValue # store[c].rawValue}

----------------------------------------------------------------------------
(* C33 *)

\* isDisabled by the rule: the control's own flag, or, for a container with
\* at least one child, every child disabled by the rule
RECURSIVE disabledByRule(_, _, _)
disabledByRule(S, C, id) ==
    \/ S[id].isDisabled
    \/ /\ id \in Containers
       /\ size(C, id) > 0
       /\ \A i \in 1..size(C, id) : disabledByRule(S, C, allControlsMemo(C, id)[i])

\* v holds, below control id, the raw value of the leaves reached through
\* children that are not disabled by the rule (all of them when onlyEnabled
\* is FALSE), and nothing else; an array holds them in order without gaps
RECURSIVE holdsLeaves(_, _, _, _, _)
holdsLeaves(S, C, id, v, onlyEnabled) ==
    LET kept(c) == ~onlyEnabled \/ ~disabledByRule(S, C, c) IN
    IF id \in Leaves THEN v = S[id].rawValue
    ELSE IF id \in Arrays
    THEN LET cs == SelectSeq(allControlsMemo(C, id), kept)
         IN  /\ DOMAIN v = DOMAIN cs
             /\ \A i \in DOMAIN cs : holdsLeaves(S, C, cs[i], v[i], onlyEnabled)
    ELSE LET es == SelectSeq(allControlEntriesMemo(C, id), LAMBDA e : kept(e[2]))
         IN  /\ DOMAIN v = {es[i][1] : i \in DOMAIN es}
             /\ \A i \in DOMAIN es : holdsLeaves(S, C, es[i][2], v[es[i][1]], onlyEnabled)

\* C33: the value of the root holds the value of a leaf exactly when no
\* control on the path from a child of the root down to the leaf is
\* disabled, a container being disabled when its own flag is set or when it
\* has at least one child and all its children are disabled; the rawValue of
\* the root holds the raw value of every leaf, whatever the flags.
C33_EnabledPaths ==
    /\ holdsLeaves(store, controls, "g", value(store, controls, "g"), TRUE)
    /\ holdsLeaves(store, controls, "g", rawValue(store, controls, "g"), FALSE)

\* both members of the list are disabled, the list itself is not, and the
\* list is absent from the value of the root and present in its raw value
C33_Witness ==
    /\ controls = ListShape
    /\ store["b"].isDisabled /\ store["c"].isDisabled
    /\ ~store["r"].isDisabled /\ ~store["a"].isDisabled
    /\ DOMAIN value(store, controls, "g") = {"firstName"}
    /\ rawValue(store, controls, "g")["list"] = <<"2", "1">>

----------------------------------------------------------------------------
(* C34 *)

\* C34: a call or a re-validation whose resulting store is equal to the
\* current one writes nothing: setValue with an equal value, a re-validation
\* whose result is the stored partition of the default source, and
\* patchErrors with an error object or with a partitioned Map that changes
\* nothing.
C34_EqualityGuarded ==
    [][ /\ \A input \in PatchErrorsInputs, source \in Sources :
              /\ Done(patchErrors(store, "a", input, source))
              /\ isEqualMap(store'["a"].errorsStore, store["a"].errorsStore)
              => ~patchErrorsWrites(store, "a", input, source)
        /\ \A v \in Values :
              store["a"].rawValue = v => setValueAndReact(store, controls, "a", v) = store
        /\ isEqualMap(store["a"].errorsStore, revalidatedErrorsStore(store, controls, "a"))
              => revalidate(store, controls, "a") = store["a"] ]_vars

----------------------------------------------------------------------------
(* C35 *)

\* the validator finds an error for the raw value, and the control is
\* invalid and its errors have the keys the validator returns
invalidByValidator(S) ==
    LET e == validatorResult(S, NoControls, "a") IN
    ~e.isNull =>
       /\ ~isValid(S, NoControls, "a")
       /\ ~errors(S, NoControls, "a").isNull
       /\ DOMAIN e.obj \subseteq DOMAIN errors(S, NoControls, "a").obj

\* C35 as stated: in every reachable state a control whose validator finds
\* an error for the current raw value is invalid and has the validator's
\* keys in errors
C35_AsStated == invalidByValidator(store)

\* C35: after a call that gives the control a new validatorStore, or a new
\* raw value while it has a validator, a control whose validator finds an
\* error for the raw value is invalid and has the validator's keys in
\* errors.  (A later setErrors or patchErrors on the default source can
\* remove them until the next re-validation.)
C35_InvalidAfterRevalidation ==
    [][ \/ store'["a"].validatorStore # store["a"].validatorStore
        \/ /\ hasValidator(store, "a")
           /\ store'["a"].rawValue # store["a"].rawValue
        => invalidByValidator(store') ]_vars

\* a validator set under a source of its own has found an error, which is
\* stored under the default source
C35_Witness ==
    /\ store["a"].rawValue = "x"
    /\ MapHas(store["a"].validatorStore, "S1")
    /\ MapGet(store["a"].validatorStore, "S1") = Fn("isX")
    /\ ~MapHas(store["a"].validatorStore, DEFAULT_SOURCE)
    /\ MapHas(store["a"].errorsStore, DEFAULT_SOURCE)
    /\ MapGet(store["a"].errorsStore, DEFAULT_SOURCE) = [x |-> "1"]
    /\ ~isValid(store, controls, "a")

----------------------------------------------------------------------------
(* C36 *)

\* C36: for every control, leaf or container, isValid implies that errors is
\* null.
C36_ValidHasNoErrors ==
    \A id \in held(controls) :
        isValid(store, controls, id) => errors(store, controls, id) = Null

----------------------------------------------------------------------------
(* C37 *)

\* the keys no validator returns: in an errors object they are the caller's
callerKeys(o) ==
    DOMAIN o \ UNION {DOMAIN callValidatorFn(fn, "leaf", v).obj :
                        fn \in ValidatorFns, v \in Values}

\* the step is a setValue that changes the raw value
changesRawValue == store'["a"].rawValue # store["a"].rawValue

\* C37 as stated: the errors the caller has placed under the default source
\* are still in errors after a setValue, also when the control has
\* validators.
C37_AsStated ==
    [][ changesRawValue =>
          \A k \in callerKeys(partitionOf(store, "a", DEFAULT_SOURCE).obj) :
             /\ ~errors(store', controls', "a").isNull
             /\ k \in DOMAIN errors(store', controls', "a").obj ]_vars

\* C37: across a setValue that changes the raw value, the errors of every
\* source but the default one stay; those of the default source stay when
\* the control has no validator, and when it has one they are replaced by
\* the validator's result for the new raw value, so that the errors the
\* caller has placed under the default source are gone.
C37_DefaultSourceOverwritten ==
    [][ changesRawValue =>
          /\ \A src \in Sources \ {DEFAULT_SOURCE} :
                partitionOf(store', "a", src) = partitionOf(store, "a", src)
          /\ ~hasValidator(store, "a") =>
                store'["a"].errorsStore = store["a"].errorsStore
          /\ hasValidator(store, "a") =>
                /\ partitionOf(store', "a", DEFAULT_SOURCE)
                     = validatorResult(store', controls', "a")
                /\ callerKeys(partitionOf(store', "a", DEFAULT_SOURCE).obj) = {} ]_vars

\* the control has a validator and errors of the source "S1"; a new raw
\* value has put the validator's result under the default source, after the
\* partition of "S1", which is still there
C37_Witness ==
    /\ nops = 2
    /\ store["a"].rawValue = ""
    /\ store["a"].validatorStore = << <<DEFAULT_SOURCE, Fn("required")>> >>
    /\ store["a"].errorsStore
         = << <<"S1", [x |-> "1"]>>, <<DEFAULT_SOURCE, [isMissing |-> "true"]>> >>

----------------------------------------------------------------------------
(* C38 *)

\* C38: every control, leaf or container at any depth, that is pending,
\* itself or through an enabled child, is not valid, and its status is not
\* VALID.
C38_PendingNotValid ==
    \A id \in Ids :
        isPending(store, controls, id) =>
           /\ ~isValid(store, controls, id)
           /\ status(store, controls, id) # "VALID"

\* a leaf two levels below the root is pending, and the root, which is not
\* pending itself, is pending, not valid and of status PENDING
C38_Witness ==
    /\ controls \in {NestedShape, ArrayShape}
    /\ store["b"].pendingStore # {}
    /\ store["g"].pendingStore = {}
    /\ \A c \in {"h", "r"} : store[c].pendingStore = {}
    /\ isPending(store, controls, "g")
    /\ ~isValid(store, controls, "g")
    /\ status(store, controls, "g") = "PENDING"

-----------------------------------------------------------------------------
(* A form array under push, setControl and removeControl alone, with       *)
(* setControl called at any index up to one past the next free one.        *)

MaxArrayOps == 3

\* createFormArray([]) or createFormArray([a, b]) over three leaves
InitArray ==
    /\ controls \in {[NoControls EXCEPT !["r"] = cs] : cs \in {<<>>, <<"a", "b">>}}
    /\ store = [Fresh EXCEPT !["a"] = NewControl("1"), !["b"] = NewControl("2"),
                             !["c"] = NewControl("1")]
    /\ nops = 0
    /\ thrown = NoError
    /\ returned = NoReturn
    /\ runs = NoRuns

ArrPush ==
    /\ nops < MaxArrayOps
    /\ \E c \in Leaves : DoneControls(push(controls, "r", c))
ArrSetControl ==
    /\ nops < MaxArrayOps
    /\ \E key \in 1..(Len(controls["r"]) + 2), c \in Leaves \cup {NoControl} :
          DoneControls(arraySetControl(controls, "r", key, c))
ArrRemoveControl ==
    /\ nops < MaxArrayOps
    /\ \E c \in Leaves : DoneControls(removeControl(controls, "r", ByControl(c)))

NextArray == ArrPush \/ ArrSetControl \/ ArrRemoveControl

SpecArray == InitArray /\ [][NextArray]_vars

-----------------------------------------------------------------------------
(* C39 *)

\* C39: after any sequence of push, setControl(i, c) with any index i,
\* setControl(i, null) and removeControl calls on a form array, size equals
\* the length of controls and the length of rawValue, and the children
\* occupy the contiguous indices 0..size-1.
C39_ArrayContiguous ==
    LET n == size(controls, "r")
    IN  /\ Len(controls["r"]) = n
        /\ Len(rawValue(store, controls, "r")) = n
        /\ \A i \in 1..n : controls["r"][i] \in Leaves

====
